---- MODULE Spec2Model ----
(***************************************************************************)
(* http2socks: an HTTP proxy front end that relays through a SOCKS5        *)
(* server (src/src/main.rs).                                               *)
(*                                                                         *)
(* Byte strings are sequences of integers 0..255.  A Rust `str` obtained   *)
(* with String::from_utf8_lossy is a sequence of code points: a well-formed*)
(* UTF-8 sequence decodes to its code point, and every maximal ill-formed  *)
(* run of a sequence decodes to one U+FFFD (65533).                        *)
(***************************************************************************)
EXTENDS Integers, Sequences, FiniteSets, TLC

----------------------------------------------------------------------------
(* SOCKS protocol constants, main.rs:9-17 *)
SOCKS5_VERSION == 5
SOCKS5_AUTH_NONE == 0
SOCKS5_AUTH_METHODS == 1
SOCKS5_CMD_CONNECT == 1
SOCKS5_RSV == 0
SOCKS5_ATYP_IPV4 == 1
SOCKS5_ATYP_DOMAIN == 3
SOCKS5_ATYP_IPV6 == 4
SOCKS5_SUCCESS == 0

(* let mut buffer = [0u8; 4096], main.rs:85 *)
BufSize == 4096

(* unwrap_or(80) and the default port, main.rs:167,169 *)
DefaultPort == 80

(* The buffer of each transfer of copy_bidirectional, main.rs:311 *)
CopyBufSize == 8192

----------------------------------------------------------------------------
(* Generic sequence helpers *)

Min(a, b) == IF a < b THEN a ELSE b

Take(s, n) == SubSeq(s, 1, Min(n, Len(s)))

Drop(s, n) == SubSeq(s, n + 1, Len(s))

IsPrefix(p, s) == Len(p) <= Len(s) /\ SubSeq(s, 1, Len(p)) = p

(* The searches below look through the lower half of a range, then the *)
(* upper one (or the other way round), so that a long input nests only *)
(* as deep as the logarithm of its length. *)

(* found if it is an index, else the result of the search that follows. *)
RECURSIVE FindIn(_, _, _, _)
FindElse(found, s, pat, lo, hi) == IF found # 0 THEN found ELSE FindIn(s, pat, lo, hi)

(* The least index i in lo..hi with pat occurring in s at i, or 0. *)
FindIn(s, pat, lo, hi) ==
    IF lo > hi THEN 0
    ELSE IF lo = hi
         THEN (IF SubSeq(s, lo, lo + Len(pat) - 1) = pat THEN lo ELSE 0)
    ELSE FindElse(FindIn(s, pat, lo, (lo + hi) \div 2),
                  s, pat, (lo + hi) \div 2 + 1, hi)

(* The least index i >= from with pat occurring in s at i, or 0. *)
FindFrom(s, pat, from) == FindIn(s, pat, from, Len(s) - Len(pat) + 1)

RECURSIVE RFindIn(_, _, _, _)
RFindElse(found, s, c, lo, hi) == IF found # 0 THEN found ELSE RFindIn(s, c, lo, hi)

(* The greatest index i in lo..hi with s[i] = c, or 0. *)
RFindIn(s, c, lo, hi) ==
    IF lo > hi THEN 0
    ELSE IF lo = hi THEN (IF s[lo] = c THEN lo ELSE 0)
    ELSE RFindElse(RFindIn(s, c, (lo + hi) \div 2 + 1, hi),
                   s, c, lo, (lo + hi) \div 2)

(* The greatest index i <= from with s[i] = c, or 0. *)
RFindChar(s, c, from) == RFindIn(s, c, 1, from)

----------------------------------------------------------------------------
(* Rust string operations used by the parsers *)

(* String::from_utf8_lossy, after core::str::lossy::Utf8Chunks. *)

RECURSIVE NonAsciiIn(_, _, _)
NonAsciiElse(found, bytes, lo, hi) ==
    IF found # 0 THEN found ELSE NonAsciiIn(bytes, lo, hi)

(* The least index i in lo..hi with bytes[i] >= 128, or 0. *)
NonAsciiIn(bytes, lo, hi) ==
    IF lo > hi THEN 0
    ELSE IF lo = hi THEN (IF bytes[lo] >= 128 THEN lo ELSE 0)
    ELSE NonAsciiElse(NonAsciiIn(bytes, lo, (lo + hi) \div 2),
                      bytes, (lo + hi) \div 2 + 1, hi)

(* utf8_char_width: the length of the sequence that the byte b leads, 0 for *)
(* a byte that leads none. *)
Utf8CharWidth(b) ==
    IF b < 128 THEN 1
    ELSE IF b >= 194 /\ b <= 223 THEN 2
    ELSE IF b >= 224 /\ b <= 239 THEN 3
    ELSE IF b >= 240 /\ b <= 244 THEN 4
    ELSE 0

(* safe_get(j) & 192 == TAG_CONT: a continuation byte stands at j. *)
IsCont(bytes, j) == j <= Len(bytes) /\ bytes[j] >= 128 /\ bytes[j] <= 191

(* The byte at j may follow the lead byte b of a sequence of three or four *)
(* bytes (no overlong form, no surrogate, nothing above U+10FFFF). *)
SecondOk(b, bytes, j) ==
    /\ j <= Len(bytes)
    /\ \/ b = 224 /\ bytes[j] >= 160 /\ bytes[j] <= 191
       \/ b >= 225 /\ b <= 236 /\ bytes[j] >= 128 /\ bytes[j] <= 191
       \/ b = 237 /\ bytes[j] >= 128 /\ bytes[j] <= 159
       \/ b >= 238 /\ b <= 239 /\ bytes[j] >= 128 /\ bytes[j] <= 191
       \/ b = 240 /\ bytes[j] >= 144 /\ bytes[j] <= 191
       \/ b >= 241 /\ b <= 243 /\ bytes[j] >= 128 /\ bytes[j] <= 191
       \/ b = 244 /\ bytes[j] >= 128 /\ bytes[j] <= 143

(* The chunk that starts at the non-ASCII byte bytes[i], whose width is w: *)
(* a whole sequence and its code point, or the ill-formed bytes read up to *)
(* the break and U+FFFD.  [len, cp] *)
Utf8ChunkOf(bytes, i, w) ==
    IF w = 2
    THEN (IF ~IsCont(bytes, i + 1) THEN [len |-> 1, cp |-> 65533]
          ELSE [len |-> 2, cp |-> (bytes[i] - 192) * 64 + (bytes[i + 1] - 128)])
    ELSE IF w = 3
    THEN (IF ~SecondOk(bytes[i], bytes, i + 1) THEN [len |-> 1, cp |-> 65533]
          ELSE IF ~IsCont(bytes, i + 2) THEN [len |-> 2, cp |-> 65533]
          ELSE [len |-> 3,
                cp |-> (bytes[i] - 224) * 4096 + (bytes[i + 1] - 128) * 64
                       + (bytes[i + 2] - 128)])
    ELSE IF w = 4
    THEN (IF ~SecondOk(bytes[i], bytes, i + 1) THEN [len |-> 1, cp |-> 65533]
          ELSE IF ~IsCont(bytes, i + 2) THEN [len |-> 2, cp |-> 65533]
          ELSE IF ~IsCont(bytes, i + 3) THEN [len |-> 3, cp |-> 65533]
          ELSE [len |-> 4,
                cp |-> (bytes[i] - 240) * 262144 + (bytes[i + 1] - 128) * 4096
                       + (bytes[i + 2] - 128) * 64 + (bytes[i + 3] - 128)])
    ELSE [len |-> 1, cp |-> 65533]

Utf8Chunk(bytes, i) == Utf8ChunkOf(bytes, i, Utf8CharWidth(bytes[i]))

(* String::from_utf8_lossy: the ASCII bytes before the first non-ASCII byte *)
(* at i (0: there is none) are their own code points, then comes the chunk *)
(* at i, then the rest decoded the same way. *)
RECURSIVE Utf8Lossy(_)
RECURSIVE Utf8LossyAt(_, _)
RECURSIVE Utf8LossyAfter(_, _, _)
Utf8Lossy(bytes) == Utf8LossyAt(bytes, NonAsciiIn(bytes, 1, Len(bytes)))

Utf8LossyAt(bytes, i) ==
    IF i = 0 THEN bytes ELSE Utf8LossyAfter(bytes, i, Utf8Chunk(bytes, i))

Utf8LossyAfter(bytes, i, chunk) ==
    SubSeq(bytes, 1, i - 1) \o <<chunk.cp>>
        \o Utf8Lossy(Drop(bytes, i + chunk.len - 1))

(* The UTF-8 encoding of one code point (str::bytes, str::as_bytes). *)
Utf8Char(c) ==
    IF c < 128 THEN <<c>>
    ELSE IF c < 2048 THEN <<192 + (c \div 64), 128 + (c % 64)>>
    ELSE IF c < 65536
         THEN <<224 + (c \div 4096), 128 + ((c \div 64) % 64), 128 + (c % 64)>>
    ELSE <<240 + (c \div 262144), 128 + ((c \div 4096) % 64),
           128 + ((c \div 64) % 64), 128 + (c % 64)>>

RECURSIVE Utf8Encode(_)
Utf8Encode(str) ==
    IF str = <<>> THEN <<>>
    ELSE IF Len(str) = 1 THEN Utf8Char(str[1])
    ELSE Utf8Encode(SubSeq(str, 1, Len(str) \div 2))
             \o Utf8Encode(SubSeq(str, Len(str) \div 2 + 1, Len(str)))

(* char::is_whitespace: the code points with the Unicode property *)
(* White_Space. *)
IsWhitespace(c) ==
    \/ c >= 9 /\ c <= 13
    \/ c = 32
    \/ c = 133
    \/ c = 160
    \/ c = 5760
    \/ c >= 8192 /\ c <= 8202
    \/ c = 8232
    \/ c = 8233
    \/ c = 8239
    \/ c = 8287
    \/ c = 12288

(* str::starts_with *)
StartsWith(str, pat) == IsPrefix(pat, str)

(* str::split(pat).collect(): the pieces between the occurrences of pat *)
RECURSIVE SplitOn(_, _)
RECURSIVE SplitAt(_, _, _)
SplitOn(str, pat) == SplitAt(str, pat, FindFrom(str, pat, 1))

(* pat first occurs in str at i (0: nowhere). *)
SplitAt(str, pat, i) ==
    IF i = 0 THEN <<str>>
    ELSE <<SubSeq(str, 1, i - 1)>> \o SplitOn(Drop(str, i + Len(pat) - 1), pat)

(* str::split_whitespace().collect(): the maximal runs of non-whitespace *)
(* The length of the run of non-whitespace that str starts with. *)
RECURSIVE WhitespaceIn(_, _, _)
WhitespaceElse(found, str, lo, hi) ==
    IF found # 0 THEN found ELSE WhitespaceIn(str, lo, hi)

(* The least index i in lo..hi with str[i] whitespace, or 0. *)
WhitespaceIn(str, lo, hi) ==
    IF lo > hi THEN 0
    ELSE IF lo = hi THEN (IF IsWhitespace(str[lo]) THEN lo ELSE 0)
    ELSE WhitespaceElse(WhitespaceIn(str, lo, (lo + hi) \div 2),
                        str, (lo + hi) \div 2 + 1, hi)

(* The run ends before the first whitespace at i (0: there is none). *)
TokenLenTo(str, i) == IF i = 0 THEN Len(str) ELSE i - 1

TokenLen(str) == TokenLenTo(str, WhitespaceIn(str, 1, Len(str)))

(* str::split_whitespace().collect(): the maximal runs of non-whitespace *)
RECURSIVE SplitWhitespace(_)
RECURSIVE TokenThenRest(_, _)
SplitWhitespace(str) ==
    IF str = <<>> THEN <<>>
    ELSE IF IsWhitespace(Head(str)) THEN SplitWhitespace(Tail(str))
    ELSE TokenThenRest(str, TokenLen(str))

TokenThenRest(str, n) == <<SubSeq(str, 1, n)>> \o SplitWhitespace(Drop(str, n))

(* str::trim *)
RECURSIVE TrimStart(_)
TrimStart(str) ==
    IF str # <<>> /\ IsWhitespace(Head(str)) THEN TrimStart(Tail(str)) ELSE str

RECURSIVE TrimEnd(_)
TrimEnd(str) ==
    IF str # <<>> /\ IsWhitespace(str[Len(str)])
    THEN TrimEnd(SubSeq(str, 1, Len(str) - 1)) ELSE str

Trim(str) == TrimEnd(TrimStart(str))

IsDigit(c) == c >= 48 /\ c <= 57

(* char::to_digit(16), or -1 *)
HexVal(c) ==
    IF c >= 48 /\ c <= 57 THEN c - 48
    ELSE IF c >= 97 /\ c <= 102 THEN c - 87
    ELSE IF c >= 65 /\ c <= 70 THEN c - 55
    ELSE -1

DigitVal(c, radix) ==
    IF radix = 10 THEN (IF IsDigit(c) THEN c - 48 ELSE -1) ELSE HexVal(c)

(* The value of the digits str in the radix. *)
RECURSIVE NumVal(_, _)
NumVal(str, radix) ==
    IF str = <<>> THEN 0
    ELSE NumVal(SubSeq(str, 1, Len(str) - 1), radix) * radix
         + DigitVal(str[Len(str)], radix)

(* The digits without their leading zeros (which add nothing to the value). *)
RECURSIVE TrimZeros(_)
TrimZeros(str) ==
    IF Len(str) > 1 /\ Head(str) = 48 THEN TrimZeros(Tail(str)) ELSE str

(* The value of a run of decimal digits as a u16, or the overflow error. *)
U16Of(sig) ==
    IF Len(sig) > 5 THEN [ok |-> FALSE, val |-> 0]
    ELSE IF NumVal(sig, 10) > 65535 THEN [ok |-> FALSE, val |-> 0]
    ELSE [ok |-> TRUE, val |-> NumVal(sig, 10)]

DigitsU16(digits) ==
    IF digits = <<>> \/ \E i \in 1..Len(digits) : ~IsDigit(digits[i])
    THEN [ok |-> FALSE, val |-> 0]
    ELSE U16Of(TrimZeros(digits))

(* str::parse::<u16>(): an optional '+', then one or more decimal digits *)
(* whose value fits 16 bits.  [ok, val] *)
ParseU16(str) ==
    DigitsU16(IF str # <<>> /\ Head(str) = 43 THEN Tail(str) ELSE str)

----------------------------------------------------------------------------
(* host.parse::<std::net::IpAddr>() (main.rs:237), after core::net::parser *)

(* The number of radix digits of str from position i on. *)
RECURSIVE NonDigitIn(_, _, _, _)
NonDigitElse(found, str, radix, lo, hi) ==
    IF found # 0 THEN found ELSE NonDigitIn(str, radix, lo, hi)

(* The least index i in lo..hi with str[i] no radix digit, or 0. *)
NonDigitIn(str, radix, lo, hi) ==
    IF lo > hi THEN 0
    ELSE IF lo = hi THEN (IF DigitVal(str[lo], radix) < 0 THEN lo ELSE 0)
    ELSE NonDigitElse(NonDigitIn(str, radix, lo, (lo + hi) \div 2),
                      str, radix, (lo + hi) \div 2 + 1, hi)

(* The run from i ends before the first non-digit at j (0: there is none). *)
DigitRunTo(str, i, j) ==
    IF i > Len(str) THEN 0 ELSE IF j = 0 THEN Len(str) - i + 1 ELSE j - i

DigitRun(str, i, radix) == DigitRunTo(str, i, NonDigitIn(str, radix, i, Len(str)))

(* Parser::read_number on a run of n digits: at most maxDigits digits, a *)
(* value of at most maxVal, a leading zero only where allowed. *)
(* [ok, val, pos] *)
ReadNumberOf(str, i, radix, maxDigits, allowZeroPrefix, maxVal, n) ==
    IF n = 0 \/ n > maxDigits
       \/ (~allowZeroPrefix /\ str[i] = 48 /\ n > 1)
       \/ NumVal(SubSeq(str, i, i + n - 1), radix) > maxVal
    THEN [ok |-> FALSE, val |-> 0, pos |-> i]
    ELSE [ok |-> TRUE, val |-> NumVal(SubSeq(str, i, i + n - 1), radix), pos |-> i + n]

ReadNumber(str, i, radix, maxDigits, allowZeroPrefix, maxVal) ==
    ReadNumberOf(str, i, radix, maxDigits, allowZeroPrefix, maxVal,
                 DigitRun(str, i, radix))

(* Parser::read_ipv4_addr: four decimal octets separated by '.'. *)
(* [ok, octets, pos] *)
RECURSIVE ReadIpv4Groups(_, _, _, _)
RECURSIVE Ipv4Next(_, _, _, _, _)
ReadIpv4Groups(str, i, k, acc) ==
    IF k = 4 THEN [ok |-> TRUE, octets |-> acc, pos |-> i]
    ELSE IF k > 0 /\ (i > Len(str) \/ str[i] # 46)
    THEN [ok |-> FALSE, octets |-> <<>>, pos |-> i]
    ELSE Ipv4Next(str, i, k, acc,
                  ReadNumber(str, IF k > 0 THEN i + 1 ELSE i, 10, 3, FALSE, 255))

(* The octet r was read (or was not) as group k. *)
Ipv4Next(str, i, k, acc, r) ==
    IF ~r.ok THEN [ok |-> FALSE, octets |-> <<>>, pos |-> i]
    ELSE ReadIpv4Groups(str, r.pos, k + 1, Append(acc, r.val))

ReadIpv4Addr(str, i) == ReadIpv4Groups(str, i, 0, <<>>)

NoIpv4 == [ok |-> FALSE, octets |-> <<>>, pos |-> 0]

NoNumber == [ok |-> FALSE, val |-> 0, pos |-> 0]

(* read_groups of Parser::read_ipv6_addr: up to limit 16-bit groups separated *)
(* by ':', the last two possibly an embedded IPv4 address. *)
(* [groups, ipv4, pos] *)
RECURSIVE ReadGroups(_, _, _, _, _)
RECURSIVE GroupsNext(_, _, _, _, _, _, _)
ReadGroups(str, i, k, limit, acc) ==
    IF k >= limit THEN [groups |-> acc, ipv4 |-> FALSE, pos |-> i]
    ELSE IF k > 0 /\ (i > Len(str) \/ str[i] # 58)
    THEN [groups |-> acc, ipv4 |-> FALSE, pos |-> i]
    ELSE GroupsNext(str, i, k, limit, acc,
                    IF k < limit - 1
                    THEN ReadIpv4Addr(str, IF k > 0 THEN i + 1 ELSE i) ELSE NoIpv4,
                    ReadNumber(str, IF k > 0 THEN i + 1 ELSE i, 16, 4, TRUE, 65535))

(* Group k read as an embedded IPv4 address v4, or else as the hex group g. *)
GroupsNext(str, i, k, limit, acc, v4, g) ==
    IF v4.ok
    THEN [groups |-> acc \o <<v4.octets[1] * 256 + v4.octets[2],
                              v4.octets[3] * 256 + v4.octets[4]>>,
          ipv4 |-> TRUE, pos |-> v4.pos]
    ELSE IF g.ok THEN ReadGroups(str, g.pos, k + 1, limit, Append(acc, g.val))
    ELSE [groups |-> acc, ipv4 |-> FALSE, pos |-> i]

Zeros(n) == [i \in 1..n |-> 0]

(* The head and the tail around "::". *)
Ipv6Join(head, tail) ==
    [ok |-> TRUE,
     groups |-> head.groups \o Zeros(8 - Len(head.groups) - Len(tail.groups))
                \o tail.groups,
     pos |-> tail.pos]

(* After the head groups: all eight, or "::" and the tail. *)
Ipv6AfterHead(str, i, head) ==
    IF Len(head.groups) = 8 THEN [ok |-> TRUE, groups |-> head.groups, pos |-> head.pos]
    ELSE IF head.ipv4
            \/ head.pos + 1 > Len(str)
            \/ str[head.pos] # 58 \/ str[head.pos + 1] # 58
    THEN [ok |-> FALSE, groups |-> <<>>, pos |-> i]
    ELSE Ipv6Join(head,
                  ReadGroups(str, head.pos + 2, 0, 8 - (Len(head.groups) + 1), <<>>))

(* Parser::read_ipv6_addr: eight groups, or a head, "::" and a tail. *)
(* [ok, groups, pos] *)
ReadIpv6Addr(str, i) == Ipv6AfterHead(str, i, ReadGroups(str, i, 0, 8, <<>>))

RECURSIVE GroupOctets(_)
GroupOctets(groups) ==
    IF groups = <<>> THEN <<>>
    ELSE <<Head(groups) \div 256, Head(groups) % 256>> \o GroupOctets(Tail(groups))

(* read_ipv4_addr().or_else(read_ipv6_addr), and the whole string must have *)
(* been read.  [kind, octets] *)
IpAddrOf(str, v4, v6) ==
    IF v4.ok
    THEN (IF v4.pos = Len(str) + 1 THEN [kind |-> "v4", octets |-> v4.octets]
          ELSE [kind |-> "none", octets |-> <<>>])
    ELSE IF v6.ok /\ v6.pos = Len(str) + 1
    THEN [kind |-> "v6", octets |-> GroupOctets(v6.groups)]
    ELSE [kind |-> "none", octets |-> <<>>]

(* str::parse::<IpAddr>() *)
ParseIpAddr(str) == IpAddrOf(str, ReadIpv4Addr(str, 1), ReadIpv6Addr(str, 1))

----------------------------------------------------------------------------
(* String literals of the source, as code points / bytes *)

(* 'CONNECT', main.rs:140,188 *)
STR_CONNECT ==
    <<67, 79, 78, 78, 69, 67, 84>>

(* '\r\n', main.rs:145,176,193 *)
STR_CRLF ==
    <<13, 10>>

(* 'host:', main.rs:159 *)
STR_HOST_COLON ==
    <<104, 111, 115, 116, 58>>

(* ' HTTP/1.1\r\n', main.rs:122 *)
STR_HTTP11_CRLF ==
    <<32, 72, 84, 84, 80, 47, 49, 46, 49, 13, 10>>

(* 'HTTP/1.1 200 Connection Established\r\n\r\n', main.rs:103 *)
RESP_200 ==
    <<72, 84, 84, 80, 47, 49, 46, 49, 32, 50, 48, 48, 32, 67, 111, 110, 110, 101, 99, 116, 105, 111, 110, 32, 69, 115, 116, 97, 98, 108, 105, 115, 104, 101, 100, 13, 10, 13, 10>>

(* 'HTTP/1.1 400 Bad Request\r\n\r\n', main.rs:113,131 *)
RESP_400 ==
    <<72, 84, 84, 80, 47, 49, 46, 49, 32, 52, 48, 48, 32, 66, 97, 100, 32, 82, 101, 113, 117, 101, 115, 116, 13, 10, 13, 10>>

----------------------------------------------------------------------------
(* The request parsers and the request-line rewrite *)

(* main.rs:139-141 *)
is_connect_request(buffer) == StartsWith(Utf8Lossy(buffer), STR_CONNECT)

NoneHttp == [ok |-> FALSE, method |-> <<>>, host |-> <<>>, port |-> 0, uri |-> <<>>]

(* line.to_lowercase().starts_with("host:"), main.rs:159.  to_lowercase *)
(* maps a string code point by code point, each to one or more code points; *)
(* the only code points whose mapping begins with 'h', 'o', 's', 't' or ':' *)
(* are these five themselves and 'H', 'O', 'S', 'T', each mapped to one code *)
(* point.  So the lowercased line starts with "host:" exactly when its *)
(* first five code points are those letters in either case and ':'. *)
HostPrefixChar(c, lower) == c = lower \/ (lower # 58 /\ c = lower - 32)

LowercaseStartsWithHost(line) ==
    /\ Len(line) >= Len(STR_HOST_COLON)
    /\ \A i \in 1..Len(STR_HOST_COLON) : HostPrefixChar(line[i], STR_HOST_COLON[i])

(* The first element of lines that to_lowercase().starts_with("host:"), as *)
(* a one-element sequence, or <<>> (Iterator::find, main.rs:157-159). *)
RECURSIVE FindHostLine(_)
FindHostLine(lines) ==
    IF lines = <<>> THEN <<>>
    ELSE IF LowercaseStartsWithHost(Head(lines)) THEN <<Head(lines)>>
    ELSE FindHostLine(Tail(lines))

(* HostPortAt with unwrap_or(0) and a default port of 0: C10 must tell it *)
(* from the source. *)
HostPortAtZero(host_header, idx, p) ==
    IF idx # 0
    THEN [host |-> SubSeq(host_header, 1, idx - 1), port |-> IF p.ok THEN p.val ELSE 0]
    ELSE [host |-> host_header, port |-> 0]

(* The (host, port) of a Host header value split at idx, main.rs:165-170 *)
HostPortAt(host_header, idx, p) ==
    IF idx # 0
    THEN [host |-> SubSeq(host_header, 1, idx - 1),
          port |-> IF p.ok THEN p.val ELSE DefaultPort]
    ELSE [host |-> host_header, port |-> DefaultPort]

HostPortSplit(host_header, idx) ==
    HostPortAt(host_header, idx, ParseU16(Drop(host_header, idx)))

HostPort(host_header) ==
    HostPortSplit(host_header, RFindChar(host_header, 58, Len(host_header)))

(* The value of the Host header line: .split(':').nth(1)?.trim(), *)
(* main.rs:160-162.  A one-element sequence, or <<>>. *)
NthOne(pieces) == IF Len(pieces) < 2 THEN <<>> ELSE <<Trim(pieces[2])>>

HostHeaderValue(found) ==
    IF found = <<>> THEN <<>> ELSE NthOne(SplitOn(found[1], <<58>>))

HttpResult(parts, hp) ==
    [ok |-> TRUE, method |-> parts[1], host |-> hp.host, port |-> hp.port,
     uri |-> parts[2]]

HttpParts(parts, value) ==
    IF Len(parts) # 3 THEN NoneHttp
    ELSE IF value = <<>> THEN NoneHttp
    ELSE HttpResult(parts, HostPort(value[1]))

HttpLines(lines) ==
    HttpParts(SplitWhitespace(lines[1]), HostHeaderValue(FindHostLine(lines)))

(* main.rs:143-173.  [ok, method, host, port, uri] *)
parse_http_request(buffer) == HttpLines(SplitOn(Utf8Lossy(buffer), STR_CRLF))

(* buffer.windows(2).position(|w| w == b"\r\n"), as a 1-based index or 0 *)
CrlfPosition(buffer) == FindFrom(buffer, STR_CRLF, 1)

FirstLineLenAt(i) == IF i # 0 THEN (i - 1) + 2 ELSE 0

(* main.rs:175-181 *)
first_line_len(buffer) == FirstLineLenAt(CrlfPosition(buffer))

(* The bytes written upstream for a regular request: format! and splice, *)
(* main.rs:122-124 *)
RewriteRequest(buffer, method, path) ==
    Utf8Encode(method \o <<32>> \o path \o STR_HTTP11_CRLF)
        \o Drop(buffer, first_line_len(buffer))

NoneConnect == [ok |-> FALSE, host |-> <<>>, port |-> 0]

ConnectResult(host, port) ==
    IF ~port.ok THEN NoneConnect
    ELSE [ok |-> TRUE, host |-> host, port |-> port.val]

(* parts[1].split(':') must give two pieces, main.rs:203-211 *)
ConnectAddr(addr_parts) ==
    IF Len(addr_parts) # 2 THEN NoneConnect
    ELSE ConnectResult(addr_parts[1], ParseU16(addr_parts[2]))

ConnectParts(parts) ==
    IF Len(parts) # 3 THEN NoneConnect
    ELSE ConnectAddr(SplitOn(parts[2], <<58>>))

ConnectRequest(request) ==
    IF ~StartsWith(request, STR_CONNECT) THEN NoneConnect
    ELSE ConnectParts(SplitWhitespace(SplitOn(request, STR_CRLF)[1]))

(* main.rs:184-212.  [ok, host, port] *)
parse_connect_request(buffer) == ConnectRequest(Utf8Lossy(buffer))

----------------------------------------------------------------------------
(* The SOCKS5 client messages *)

(* main.rs:227 *)
Socks5Greeting == <<SOCKS5_VERSION, SOCKS5_AUTH_METHODS, SOCKS5_AUTH_NONE>>

(* u16::to_be_bytes, main.rs:255 *)
ToBeBytes(port) == <<port \div 256, port % 256>>

(* The address field for a host that parsed as ip (or did not) and whose *)
(* bytes are addr_bytes, main.rs:237-254; `len() as u8` keeps the low *)
(* eight bits of the length. *)
Socks5AddressOf(ip, addr_bytes) ==
    IF ip.kind = "v4" THEN <<SOCKS5_ATYP_IPV4>> \o ip.octets
    ELSE IF ip.kind = "v6" THEN <<SOCKS5_ATYP_IPV6>> \o ip.octets
    ELSE <<SOCKS5_ATYP_DOMAIN, Len(addr_bytes) % 256>> \o addr_bytes

Socks5Address(host) == Socks5AddressOf(ParseIpAddr(host), Utf8Encode(host))

(* main.rs:234-255 *)
Socks5Request(host, port) ==
    <<SOCKS5_VERSION, SOCKS5_CMD_CONNECT, SOCKS5_RSV>>
        \o Socks5Address(host) \o ToBeBytes(port)

----------------------------------------------------------------------------
(* The first reads the clients of the model send (HTTP mode) *)

(* 'CONNECT example.com:443 HTTP/1.1\r\n\r\n' *)
InConnectDomain ==
    <<67, 79, 78, 78, 69, 67, 84, 32, 101, 120, 97, 109, 112, 108, 101, 46,
      99, 111, 109, 58, 52, 52, 51, 32, 72, 84, 84, 80, 47, 49, 46, 49, 13,
      10, 13, 10>>

(* 'CONNECT h:0 HTTP/1.1\r\n\r\n' *)
InConnectPortZero ==
    <<67, 79, 78, 78, 69, 67, 84, 32, 104, 58, 48, 32, 72, 84, 84, 80, 47,
      49, 46, 49, 13, 10, 13, 10>>

(* 'CONNECT h:443 HTTP/1.1\r\n\r\nxy' *)
InConnectWithBody ==
    <<67, 79, 78, 78, 69, 67, 84, 32, 104, 58, 52, 52, 51, 32, 72, 84, 84,
      80, 47, 49, 46, 49, 13, 10, 13, 10, 120, 121>>

(* 'GET http://example.com/path?q=1 HTTP/1.1\r\nHost: example.com\r\nX: y\r\n\r\n' *)
InGetAbsolute ==
    <<71, 69, 84, 32, 104, 116, 116, 112, 58, 47, 47, 101, 120, 97, 109, 112,
      108, 101, 46, 99, 111, 109, 47, 112, 97, 116, 104, 63, 113, 61, 49, 32,
      72, 84, 84, 80, 47, 49, 46, 49, 13, 10, 72, 111, 115, 116, 58, 32, 101,
      120, 97, 109, 112, 108, 101, 46, 99, 111, 109, 13, 10, 88, 58, 32, 121,
      13, 10, 13, 10>>

(* 'GET /\r\n\r\n' *)
InGetTwoTokens ==
    <<71, 69, 84, 32, 47, 13, 10, 13, 10>>

(* 'CONNECT ' 'a' * 256 ':80 HTTP/1.1\r\n\r\n': a name one byte longer than *)
(* a SOCKS5 length byte can state *)
InConnectLongHost ==
    STR_CONNECT \o <<32>> \o [i \in 1..256 |-> 97]
        \o <<58, 56, 48, 32, 72, 84, 84, 80, 47, 49, 46, 49, 13, 10, 13, 10>>

FirstReads ==
    {InConnectDomain,
     (* 'CONNECT 93.184.216.34:443 HTTP/1.1\r\nHost: 93.184.216.34:443\r\n\r\n' *)
     <<67, 79, 78, 78, 69, 67, 84, 32, 57, 51, 46, 49, 56, 52, 46, 50, 49, 54,
       46, 51, 52, 58, 52, 52, 51, 32, 72, 84, 84, 80, 47, 49, 46, 49, 13, 10,
       72, 111, 115, 116, 58, 32, 57, 51, 46, 49, 56, 52, 46, 50, 49, 54, 46,
       51, 52, 58, 52, 52, 51, 13, 10, 13, 10>>,
     (* 'CONNECT ::1:443 HTTP/1.1\r\n\r\n' *)
     <<67, 79, 78, 78, 69, 67, 84, 32, 58, 58, 49, 58, 52, 52, 51, 32, 72, 84,
       84, 80, 47, 49, 46, 49, 13, 10, 13, 10>>,
     (* 'CONNECT [::1]:443 HTTP/1.1\r\n\r\n' *)
     <<67, 79, 78, 78, 69, 67, 84, 32, 91, 58, 58, 49, 93, 58, 52, 52, 51, 32,
       72, 84, 84, 80, 47, 49, 46, 49, 13, 10, 13, 10>>,
     InConnectPortZero,
     (* 'CONNECT :443 HTTP/1.1\r\n\r\n' *)
     <<67, 79, 78, 78, 69, 67, 84, 32, 58, 52, 52, 51, 32, 72, 84, 84, 80, 47,
       49, 46, 49, 13, 10, 13, 10>>,
     (* 'CONNECT h: HTTP/1.1\r\n\r\n' *)
     <<67, 79, 78, 78, 69, 67, 84, 32, 104, 58, 32, 72, 84, 84, 80, 47, 49,
       46, 49, 13, 10, 13, 10>>,
     (* 'CONNECT h:65536 HTTP/1.1\r\n\r\n' *)
     <<67, 79, 78, 78, 69, 67, 84, 32, 104, 58, 54, 53, 53, 51, 54, 32, 72,
       84, 84, 80, 47, 49, 46, 49, 13, 10, 13, 10>>,
     (* 'CONNECT h:65535 HTTP/1.0\r\n\r\n' *)
     <<67, 79, 78, 78, 69, 67, 84, 32, 104, 58, 54, 53, 53, 51, 53, 32, 72,
       84, 84, 80, 47, 49, 46, 48, 13, 10, 13, 10>>,
     (* 'CONNECT h:+80 HTTP/1.1\r\n\r\n' *)
     <<67, 79, 78, 78, 69, 67, 84, 32, 104, 58, 43, 56, 48, 32, 72, 84, 84,
       80, 47, 49, 46, 49, 13, 10, 13, 10>>,
     (* 'CONNECT h:x HTTP/1.1\r\n\r\n' *)
     <<67, 79, 78, 78, 69, 67, 84, 32, 104, 58, 120, 32, 72, 84, 84, 80, 47,
       49, 46, 49, 13, 10, 13, 10>>,
     (* 'CONNECT h HTTP/1.1\r\n\r\n' *)
     <<67, 79, 78, 78, 69, 67, 84, 32, 104, 32, 72, 84, 84, 80, 47, 49, 46,
       49, 13, 10, 13, 10>>,
     (* 'CONNECT h:443\r\n\r\n' *)
     <<67, 79, 78, 78, 69, 67, 84, 32, 104, 58, 52, 52, 51, 13, 10, 13, 10>>,
     InConnectWithBody,
     (* 'CONNECTX h:443 HTTP/1.1\r\n\r\n' *)
     <<67, 79, 78, 78, 69, 67, 84, 88, 32, 104, 58, 52, 52, 51, 32, 72, 84,
       84, 80, 47, 49, 46, 49, 13, 10, 13, 10>>,
     (* 'CONNECT 01.2.3.4:80 HTTP/1.1\r\n\r\n' *)
     <<67, 79, 78, 78, 69, 67, 84, 32, 48, 49, 46, 50, 46, 51, 46, 52, 58, 56,
       48, 32, 72, 84, 84, 80, 47, 49, 46, 49, 13, 10, 13, 10>>,
     InGetAbsolute,
     (* 'GET /p HTTP/1.0\r\nHost: foo:8081\r\n\r\n' *)
     <<71, 69, 84, 32, 47, 112, 32, 72, 84, 84, 80, 47, 49, 46, 48, 13, 10,
       72, 111, 115, 116, 58, 32, 102, 111, 111, 58, 56, 48, 56, 49, 13, 10,
       13, 10>>,
     InGetTwoTokens,
     (* 'GET /p HTTP/1.1\r\n\r\n' *)
     <<71, 69, 84, 32, 47, 112, 32, 72, 84, 84, 80, 47, 49, 46, 49, 13, 10,
       13, 10>>,
     (* 'host:x y z' *)
     <<104, 111, 115, 116, 58, 120, 32, 121, 32, 122>>,
     (* 'GET /ÿ HTTP/1.0\r\nHost: a\r\n\r\n' *)
     <<71, 69, 84, 32, 47, 255, 32, 72, 84, 84, 80, 47, 49, 46, 48, 13, 10,
       72, 111, 115, 116, 58, 32, 97, 13, 10, 13, 10>>,
     (* 'POST /p HTTP/1.1\r\nHOST:  bar \r\n\r\nbody' *)
     <<80, 79, 83, 84, 32, 47, 112, 32, 72, 84, 84, 80, 47, 49, 46, 49, 13,
       10, 72, 79, 83, 84, 58, 32, 32, 98, 97, 114, 32, 13, 10, 13, 10, 98,
       111, 100, 121>>,
     (* 'GET /p HTTP/1.1\r\nX: y\r\nhost: 10.0.0.1\r\n\r\n' *)
     <<71, 69, 84, 32, 47, 112, 32, 72, 84, 84, 80, 47, 49, 46, 49, 13, 10,
       88, 58, 32, 121, 13, 10, 104, 111, 115, 116, 58, 32, 49, 48, 46, 48,
       46, 48, 46, 49, 13, 10, 13, 10>>,
     (* 'GET  /p\tHTTP/1.1\r\nHost: a\r\n\r\n' *)
     <<71, 69, 84, 32, 32, 47, 112, 9, 72, 84, 84, 80, 47, 49, 46, 49, 13, 10,
       72, 111, 115, 116, 58, 32, 97, 13, 10, 13, 10>>,
     (* 'GET /p HTTP/1.1\nHost: a\r\n\r\n' *)
     <<71, 69, 84, 32, 47, 112, 32, 72, 84, 84, 80, 47, 49, 46, 49, 10, 72,
       111, 115, 116, 58, 32, 97, 13, 10, 13, 10>>,
     (* 'GET /p HTTP/1.1\r\nHost:\r\n\r\n' *)
     <<71, 69, 84, 32, 47, 112, 32, 72, 84, 84, 80, 47, 49, 46, 49, 13, 10,
       72, 111, 115, 116, 58, 13, 10, 13, 10>>,
     (* 'GET /p HTTP/1.1\r\nHost: a:0\r\n\r\n' *)
     <<71, 69, 84, 32, 47, 112, 32, 72, 84, 84, 80, 47, 49, 46, 49, 13, 10,
       72, 111, 115, 116, 58, 32, 97, 58, 48, 13, 10, 13, 10>>,
     (* 'PUT /p HTTP/1.1\r\n\r\nhost: b' *)
     <<80, 85, 84, 32, 47, 112, 32, 72, 84, 84, 80, 47, 49, 46, 49, 13, 10,
       13, 10, 104, 111, 115, 116, 58, 32, 98>>,
     (* ' CONNECT h:1 HTTP/1.1\r\n\r\n' *)
     <<32, 67, 79, 78, 78, 69, 67, 84, 32, 104, 58, 49, 32, 72, 84, 84, 80,
       47, 49, 46, 49, 13, 10, 13, 10>>,
     (* 'GET /caf\xC3\xA9 HTTP/1.1\r\nHost: a\r\n\r\n': U+00E9 in the URI *)
     <<71, 69, 84, 32, 47, 99, 97, 102, 195, 169, 32, 72, 84, 84, 80, 47, 49,
       46, 49, 13, 10, 72, 111, 115, 116, 58, 32, 97, 13, 10, 13, 10>>,
     (* 'GET /\xE2\x82 HTTP/1.1\r\nHost: a\r\n\r\n': a sequence of three bytes *)
     (* cut after its second *)
     <<71, 69, 84, 32, 47, 226, 130, 32, 72, 84, 84, 80, 47, 49, 46, 49, 13,
       10, 72, 111, 115, 116, 58, 32, 97, 13, 10, 13, 10>>,
     (* 'GET / HTTP/1.1\r\nHost:\xC2\xA0a\r\n\r\n': U+00A0 before the host *)
     <<71, 69, 84, 32, 47, 32, 72, 84, 84, 80, 47, 49, 46, 49, 13, 10, 72,
       111, 115, 116, 58, 194, 160, 97, 13, 10, 13, 10>>,
     (* 'GET\xC2\xA0/ HTTP/1.1 x\r\nHost: a\r\n\r\n': U+00A0 after the method *)
     <<71, 69, 84, 194, 160, 47, 32, 72, 84, 84, 80, 47, 49, 46, 49, 32, 120,
       13, 10, 72, 111, 115, 116, 58, 32, 97, 13, 10, 13, 10>>,
     (* 'CONNECT caf\xC3\xA9.com:443 HTTP/1.1\r\n\r\n': U+00E9 in the host *)
     <<67, 79, 78, 78, 69, 67, 84, 32, 99, 97, 102, 195, 169, 46, 99, 111,
       109, 58, 52, 52, 51, 32, 72, 84, 84, 80, 47, 49, 46, 49, 13, 10, 13,
       10>>}

----------------------------------------------------------------------------
(* Bounds of the model *)

(* Connection slots of the listener. *)
MaxConns == 2

(* The most bytes a client sends after its first read, and a SOCKS5 server *)
(* after its reply. *)
MaxData == 2

Conns == 1..MaxConns

(* Opaque payload: the first n bytes of "xyxy..." from a client and of *)
(* "yxyx..." from a server. *)
ClientPayload(n) == [i \in 1..n |-> IF i % 2 = 1 THEN 120 ELSE 121]

ServerPayload(n) == [i \in 1..n |-> IF i % 2 = 1 THEN 121 ELSE 120]

ClientData == {ClientPayload(n) : n \in 0..MaxData}

ServerData == {ServerPayload(n) : n \in 0..MaxData}

(* What a SOCKS5 server sends up to the end of its reply: well-formed *)
(* replies with each address type, and replies that refuse or stop short. *)
ReplyOkIpv4   == <<5, 0, 5, 0, 0, 1, 0, 0, 0, 0, 0, 0>>
ReplyOkDomain == <<5, 0, 5, 0, 0, 3, 2, 97, 98, 0, 80>>
ReplyOkIpv6   == <<5, 0, 5, 0, 0, 4>> \o Zeros(16) \o <<0, 0>>
ReplyNoMethod == <<5, 255, 5, 0, 0, 1, 0, 0, 0, 0, 0, 0>>
ReplyVersion4 == <<4, 0, 4, 0, 0, 1, 127, 0, 0, 1, 4, 56>>

GoodReplies == {ReplyOkIpv4, ReplyOkDomain, ReplyOkIpv6, ReplyNoMethod, ReplyVersion4}

BadReplies ==
    {<<>>, <<5>>, <<5, 0>>, <<5, 0, 5, 0, 0>>,
     <<5, 0, 5, 1, 0, 1, 0, 0, 0, 0, 0, 0>>,
     <<5, 0, 5, 0, 0, 9, 0, 0, 0, 0, 0, 0>>,
     <<5, 0, 5, 0, 0, 1, 0, 0, 0>>,
     <<5, 0, 5, 0, 0, 1, 0, 0, 0, 0, 0>>,
     <<5, 0, 5, 0, 0, 3>>,
     <<5, 0, 5, 0, 0, 3, 5, 97>>}

(* Everything a server sends before it closes (HTTP mode). *)
ServerScripts == BadReplies \cup {r \o d : r \in GoodReplies, d \in ServerData}

(* What a server sends that then keeps its connection open for ever: a *)
(* whole reply with payload, and a reply that stops inside its header. *)
OpenScripts == {ReplyOkIpv4 \o ServerPayload(MaxData), <<5, 0, 5>>}

(* Replies that reach the proxy in two bursts: the places where the first *)
(* burst ends (inside the method selection, inside the header, inside the *)
(* bound address). *)
SegmentCuts == {1, 5, 8}

SegmentedScripts ==
    {r \o ServerPayload(MaxData) : r \in {ReplyOkIpv4, ReplyOkDomain}}
        \cup {<<5, 0, 5, 0, 0, 1, 0, 0, 0>>}

(* A SOCKS5 server of the model: the bytes it sends, whether it closes its *)
(* side after them, and how many of them arrive at once (cut), the rest *)
(* arriving later. *)
ServerBehaviours ==
    {[bytes |-> s, fin |-> TRUE, cut |-> Len(s)] : s \in ServerScripts}
        \cup {[bytes |-> s, fin |-> FALSE, cut |-> Len(s)] : s \in OpenScripts}
        \cup {[bytes |-> s, fin |-> TRUE, cut |-> k] :
                 s \in SegmentedScripts, k \in SegmentCuts}

(* The endpoint a forward-mode client talks to through the relay. *)
ForwardBehaviours ==
    {[bytes |-> s, fin |-> TRUE, cut |-> Len(s)] : s \in ServerData \cup {<<5, 0>>}}
        \cup {[bytes |-> ServerPayload(MaxData), fin |-> FALSE, cut |-> MaxData]}
        \cup {[bytes |-> ServerPayload(MaxData), fin |-> TRUE, cut |-> 1]}

----------------------------------------------------------------------------
(* State *)

VARIABLES
    forward_mode,   \* Config.forward, main.rs:33
    listener,       \* "accepting" | "exited": the accept loop of main
    quota,          \* connections the clients will still open
    conn            \* per accepted connection: the handler task and its streams

vars == <<forward_mode, listener, quota, conn>>

(* A connection slot before accept. *)
(*   pc        where the handler task is                                    *)
(*   buffer    the first read, buffer[..n]                                  *)
(*   kind      "connect" | "http" | "forward" | "none"                      *)
(*   host,port the parsed target                                            *)
(*   need      bytes of bound address the reply still holds                 *)
(*   part      bytes the read_exact under way has read so far               *)
(*   c2p, s2p  bytes from the client / SOCKS5 server that have arrived and  *)
(*             are not yet read                                             *)
(*   sLater    bytes the SOCKS5 server has sent that are still on their way *)
(*   cFin, sFin  the client / server closes its side after those bytes      *)
(*   p2c, p2s  bytes written to the client / upstream                       *)
(*   clientOpen, upOpen   the handler still holds the stream                *)
(*   clientShut, upShut   the write half was shut down by the pump          *)
(*   dirUp, dirDown       the pump's client->upstream / upstream->client    *)
(*                        transfer: "idle" | "run" | "eof" (the end of the  *)
(*                        source was read, bytes wait to be written) |      *)
(*                        "done"                                            *)
(*   bufUp, bufDown       bytes a transfer has read and not yet written     *)
(*   capUp, capDown       how far the transfer's buffer is filled           *)
(*   requestSent  bytes of the SOCKS5 request that write_all has written    *)
(*   preludeSent  bytes of the rewritten request that write_all has written *)
(*   result    what the handler returned: "none" | "ok" | "err"             *)
(* History (never read by the handler):                                     *)
(*   nFirst    bytes of the client's first burst (0: it sends none apart)   *)
(*   readErr   the first read fails                                         *)
(*   cSent, sSent  every byte the client / server sends                     *)
(*   connects  upstream TCP connects attempted                              *)
(*   reqs      SOCKS5 requests written in full                              *)
(*   hsRead    upstream bytes consumed by the handshake                     *)
(*   replyOk   connect_socks5 returned Ok                                   *)
(*   pumpUp, pumpDown  bytes the pump wrote upstream / to the client        *)
IdleConn ==
    [pc |-> "idle", buffer |-> <<>>, kind |-> "none", host |-> <<>>, port |-> 0,
     need |-> 0, part |-> <<>>, c2p |-> <<>>, s2p |-> <<>>, sLater |-> <<>>,
     cFin |-> FALSE, sFin |-> FALSE,
     p2c |-> <<>>, p2s |-> <<>>,
     clientOpen |-> FALSE, upOpen |-> FALSE, clientShut |-> FALSE, upShut |-> FALSE,
     dirUp |-> "idle", dirDown |-> "idle",
     bufUp |-> <<>>, bufDown |-> <<>>, capUp |-> 0, capDown |-> 0, result |-> "none",
     nFirst |-> 0, readErr |-> FALSE, cSent |-> <<>>, sSent |-> <<>>,
     connects |-> 0, reqs |-> <<>>, hsRead |-> 0, requestSent |-> 0, preludeSent |-> 0,
     replyOk |-> FALSE,
     pumpUp |-> <<>>, pumpDown |-> <<>>]

Init ==
    /\ forward_mode \in BOOLEAN
    /\ listener = "accepting"
    /\ quota = 1
    /\ conn = [h \in Conns |-> IdleConn]

----------------------------------------------------------------------------
(* Handler steps *)

(* Return with the upstream stream leaked: C5 must tell it from the source. *)
ReturnKeepsUpstream(c, res) ==
    [c EXCEPT !.pc = "done", !.result = res, !.clientOpen = FALSE]

(* The handler returns: its streams are dropped, which closes them. *)
Return(c, res) ==
    [c EXCEPT !.pc = "done", !.result = res, !.clientOpen = FALSE, !.upOpen = FALSE]

(* The task is dropped with the runtime, and its streams with it, which *)
(* closes them. *)
Cancel(c) == [c EXCEPT !.pc = "cancelled", !.clientOpen = FALSE, !.upOpen = FALSE]

(* tokio::spawn of main.rs:56-61: which handler runs. *)
FirstStep(forward) == IF forward THEN "fwd_connect" ELSE "read"

(* What the clients of the model send on a new connection: a first burst, *)
(* which is what the first read returns, the bytes after it (the first read *)
(* returns these when there is no first burst), and whether the client then *)
(* closes its side (fin) or keeps the connection open for ever. *)
ClientSends(forward) ==
    IF forward
    THEN {[first |-> <<>>, later |-> d, err |-> FALSE, fin |-> TRUE] :
             d \in ClientData \cup {Socks5Greeting}}
         \cup {[first |-> <<>>, later |-> ClientPayload(MaxData), err |-> FALSE,
                fin |-> FALSE]}
    ELSE {[first |-> f, later |-> d, err |-> FALSE, fin |-> TRUE] :
             f \in FirstReads, d \in ClientData}
         \cup {[first |-> <<>>, later |-> <<>>, err |-> e, fin |-> TRUE] : e \in BOOLEAN}
         \cup {[first |-> f, later |-> ClientPayload(MaxData), err |-> FALSE,
                fin |-> FALSE] : f \in {<<>>, InConnectDomain}}
         \cup {[first |-> <<>>, later |-> <<>>, err |-> FALSE, fin |-> FALSE]}

(* listener.accept() returns Ok and the handler task is spawned, main.rs:52-62; *)
(* the client is one of `sends`. *)
AcceptFrom(h, sends) ==
    /\ listener = "accepting"
    /\ quota > 0
    /\ conn[h].pc = "idle"
    /\ \A g \in Conns : g < h => conn[g].pc # "idle"
    /\ \E s \in sends :
          conn' = [conn EXCEPT ![h] =
                      [@ EXCEPT !.pc = FirstStep(forward_mode),
                                !.clientOpen = TRUE,
                                !.c2p = s.first \o s.later,
                                !.cSent = s.first \o s.later,
                                !.cFin = s.fin,
                                !.nFirst = Len(s.first),
                                !.readErr = s.err]]
    /\ quota' = quota - 1
    /\ UNCHANGED <<forward_mode, listener>>

Accept(h) == AcceptFrom(h, ClientSends(forward_mode))

(* listener.accept() returns Err: the `while let Ok` loop ends, main returns *)
(* and the runtime drops the tasks still running, main.rs:52,79 *)
AcceptError ==
    /\ listener = "accepting"
    /\ listener' = "exited"
    /\ conn' = [h \in Conns |->
                  IF conn[h].pc \in {"idle", "done"} THEN conn[h] ELSE Cancel(conn[h])]
    /\ UNCHANGED <<forward_mode, quota>>

(* Where handle_client goes once the first read is classified and parsed, *)
(* main.rs:95-133 *)
Parsed(c, kind, r) ==
    IF r.ok
    THEN [c EXCEPT !.pc = "s5_connect", !.kind = kind, !.host = r.host, !.port = r.port]
    ELSE [c EXCEPT !.pc = "write400", !.kind = kind]

AfterParse(c, buf) ==
    IF is_connect_request(buf)
    THEN Parsed(c, "connect", parse_connect_request(buf))
    ELSE Parsed(c, "http", parse_http_request(buf))

(* The bytes client.read returns: those that have arrived, as many as the *)
(* buffer holds; none at the end of the stream.  main.rs:85-86 *)
FirstReadLen(c) == Min(IF c.nFirst > 0 THEN c.nFirst ELSE Len(c.c2p), BufSize)

(* ReadRequest awaited by the accept loop itself, the failure of the read *)
(* returned from main with `?`: C11 must tell it from the source. *)
ReadRequestInline(h) ==
    LET c == conn[h]
        n == FirstReadLen(c)
    IN  /\ c.pc = "read"
        /\ (n > 0 \/ c.readErr \/ c.cFin)
        /\ conn' = [g \in Conns |->
              IF g = h
              THEN IF c.readErr \/ n = 0 THEN Return(c, "err")
                   ELSE AfterParse([c EXCEPT !.buffer = Take(c.c2p, n),
                                             !.c2p = Drop(c.c2p, n)],
                                   Take(c.c2p, n))
              ELSE IF (c.readErr \/ n = 0) /\ conn[g].pc \notin {"idle", "done"}
                   THEN Cancel(conn[g]) ELSE conn[g]]
        /\ listener' = IF c.readErr \/ n = 0 THEN "exited" ELSE listener
        /\ UNCHANGED <<forward_mode, quota>>

(* client.read(&mut buffer), the n == 0 check and the parse, main.rs:85-118 *)
ReadRequest(h) ==
    LET c == conn[h]
        n == FirstReadLen(c)
    IN  /\ c.pc = "read"
        /\ (n > 0 \/ c.readErr \/ c.cFin)
        /\ conn' = [conn EXCEPT ![h] =
              IF c.readErr \/ n = 0 THEN Return(c, "err")
              ELSE AfterParse([c EXCEPT !.buffer = Take(c.c2p, n),
                                        !.c2p = Drop(c.c2p, n)],
                              Take(c.c2p, n))]
        /\ UNCHANGED <<forward_mode, listener, quota>>

(* TcpStream::connect(socks_addr) of connect_socks5, main.rs:222; the *)
(* server reached is one of `servers`. *)
TcpConnectTo(h, servers) ==
    LET c == conn[h] IN
    /\ c.pc = "s5_connect"
    /\ \/ conn' = [conn EXCEPT ![h] = Return([c EXCEPT !.connects = @ + 1], "err")]
       \/ \E server \in servers :
             conn' = [conn EXCEPT ![h] =
                         [c EXCEPT !.pc = "s5_greet", !.upOpen = TRUE,
                                   !.connects = @ + 1,
                                   !.s2p = Take(server.bytes, server.cut),
                                   !.sLater = Drop(server.bytes, server.cut),
                                   !.sSent = server.bytes,
                                   !.sFin = server.fin]]
    /\ UNCHANGED <<forward_mode, listener, quota>>

TcpConnect(h) == TcpConnectTo(h, ServerBehaviours)

(* socks.write_all(greeting), main.rs:226-228: the greeting is written, or *)
(* the write fails and `?` returns the error. *)
SendGreeting(h) ==
    LET c == conn[h] IN
    /\ c.pc = "s5_greet"
    /\ \/ conn' = [conn EXCEPT ![h] =
                      [c EXCEPT !.pc = "s5_greet_reply", !.p2s = @ \o Socks5Greeting]]
       \/ conn' = [conn EXCEPT ![h] = Return(c, "err")]
    /\ UNCHANGED <<forward_mode, listener, quota>>

(* The upstream stream is at its end: the server has closed its side and *)
(* all it sent has arrived and been read. *)
UpstreamEof(c) == c.s2p = <<>> /\ c.sLater = <<>> /\ c.sFin

(* socks.read_exact of k bytes can go on: it needs no more bytes, or bytes *)
(* have arrived, or the stream is at its end. *)
CanReadExact(c, k) == Len(c.part) >= k \/ c.s2p # <<>> \/ UpstreamEof(c)

(* The bytes of the read_exact under way together with those that wait. *)
ReadSoFar(c) == c.part \o c.s2p

(* The read_exact of k bytes cannot be completed with the bytes that wait. *)
ShortRead(c, k) == Len(ReadSoFar(c)) < k

(* socks.read_exact of k bytes, polled once: the bytes it still needs are *)
(* taken from the stream; or fewer have arrived, and it takes those and *)
(* goes on waiting; or the stream has ended, and connect_socks5 returns the *)
(* UnexpectedEof error, the bytes read before it gone from the stream. *)
ReadExact(c, k, next) ==
    IF ~ShortRead(c, k)
    THEN [c EXCEPT !.pc = next, !.s2p = Drop(@, k - Len(c.part)),
                   !.hsRead = @ + (k - Len(c.part)), !.part = <<>>]
    ELSE IF c.s2p # <<>>
    THEN [c EXCEPT !.part = @ \o c.s2p, !.hsRead = @ + Len(c.s2p), !.s2p = <<>>]
    ELSE Return([c EXCEPT !.part = <<>>], "err")

(* The two bytes of the method selection, main.rs:229-230 *)
ReadGreetingReply(h) ==
    LET c == conn[h] IN
    /\ c.pc = "s5_greet_reply"
    /\ CanReadExact(c, 2)
    /\ conn' = [conn EXCEPT ![h] = ReadExact(c, 2, "s5_request")]
    /\ UNCHANGED <<forward_mode, listener, quota>>

(* The last write of write_all(&request): the request is written and *)
(* connect_socks5 goes on to read the reply, main.rs:256-259. *)
RequestSent(c, request) ==
    [c EXCEPT !.pc = "s5_header", !.p2s = @ \o Drop(request, c.requestSent),
              !.requestSent = Len(request), !.reqs = Append(@, request)]

(* One write of write_all(&request): the upstream takes the next k bytes. *)
RequestPart(c, request, k) ==
    IF c.requestSent + k = Len(request) THEN RequestSent(c, request)
    ELSE [c EXCEPT !.p2s = @ \o SubSeq(request, c.requestSent + 1, c.requestSent + k),
                   !.requestSent = @ + k]

(* socks.write_all(&request), main.rs:234-256: a loop of writes, each *)
(* taking part or all of what is left, the task waiting in between; or a *)
(* write fails and `?` returns the error, part of the request being written. *)
WriteRequest(h, c, request) ==
    \/ \E k \in 1..(Len(request) - c.requestSent) :
          conn' = [conn EXCEPT ![h] = RequestPart(c, request, k)]
    \/ conn' = [conn EXCEPT ![h] = Return(c, "err")]

SendRequest(h) ==
    /\ conn[h].pc = "s5_request"
    /\ WriteRequest(h, conn[h], Socks5Request(conn[h].host, conn[h].port))
    /\ UNCHANGED <<forward_mode, listener, quota>>

(* AfterHeader without the REP check: C3 must tell it from the source. *)
AfterHeaderIgnoresRep(c, header) ==
    IF header[4] = SOCKS5_ATYP_IPV4 THEN [c EXCEPT !.pc = "s5_addr", !.need = 4]
    ELSE IF header[4] = SOCKS5_ATYP_DOMAIN THEN [c EXCEPT !.pc = "s5_len"]
    ELSE IF header[4] = SOCKS5_ATYP_IPV6 THEN [c EXCEPT !.pc = "s5_addr", !.need = 16]
    ELSE Return(c, "err")

(* AfterHeader reading an unknown ATYP as IPv4: C9 must tell it from the *)
(* source. *)
AfterHeaderAnyAtyp(c, header) ==
    IF header[2] # SOCKS5_SUCCESS THEN Return(c, "err")
    ELSE IF header[4] = SOCKS5_ATYP_DOMAIN THEN [c EXCEPT !.pc = "s5_len"]
    ELSE IF header[4] = SOCKS5_ATYP_IPV6 THEN [c EXCEPT !.pc = "s5_addr", !.need = 16]
    ELSE [c EXCEPT !.pc = "s5_addr", !.need = 4]

(* After the four header bytes: the REP check and the match on ATYP, *)
(* main.rs:262-286 *)
AfterHeader(c, header) ==
    IF header[2] # SOCKS5_SUCCESS THEN Return(c, "err")
    ELSE IF header[4] = SOCKS5_ATYP_IPV4 THEN [c EXCEPT !.pc = "s5_addr", !.need = 4]
    ELSE IF header[4] = SOCKS5_ATYP_DOMAIN THEN [c EXCEPT !.pc = "s5_len"]
    ELSE IF header[4] = SOCKS5_ATYP_IPV6 THEN [c EXCEPT !.pc = "s5_addr", !.need = 16]
    ELSE Return(c, "err")

(* main.rs:259-286 *)
ReadReplyHeader(h) ==
    LET c == conn[h] IN
    /\ c.pc = "s5_header"
    /\ CanReadExact(c, 4)
    /\ conn' = [conn EXCEPT ![h] =
                   IF ShortRead(c, 4) THEN ReadExact(c, 4, "s5_header")
                   ELSE AfterHeader(ReadExact(c, 4, "s5_addr"), Take(ReadSoFar(c), 4))]
    /\ UNCHANGED <<forward_mode, listener, quota>>

(* ReadDomainLen counting the length byte into the name it announces: C20 *)
(* must tell it from the source. *)
ReadDomainLenPlusOne(h) ==
    LET c == conn[h] IN
    /\ c.pc = "s5_len"
    /\ CanReadExact(c, 1)
    /\ conn' = [conn EXCEPT ![h] =
                   IF ShortRead(c, 1) THEN ReadExact(c, 1, "s5_len")
                   ELSE [ReadExact(c, 1, "s5_addr") EXCEPT
                            !.need = ReadSoFar(c)[1] + 1]]
    /\ UNCHANGED <<forward_mode, listener, quota>>

(* The length byte of a domain-name bound address, main.rs:275-277 *)
ReadDomainLen(h) ==
    LET c == conn[h] IN
    /\ c.pc = "s5_len"
    /\ CanReadExact(c, 1)
    /\ conn' = [conn EXCEPT ![h] =
                   IF ShortRead(c, 1) THEN ReadExact(c, 1, "s5_len")
                   ELSE [ReadExact(c, 1, "s5_addr") EXCEPT !.need = ReadSoFar(c)[1]]]
    /\ UNCHANGED <<forward_mode, listener, quota>>

(* The bound address, main.rs:271,278,283 *)
ReadBndAddr(h) ==
    LET c == conn[h] IN
    /\ c.pc = "s5_addr"
    /\ CanReadExact(c, c.need)
    /\ conn' = [conn EXCEPT ![h] = ReadExact(c, c.need, "s5_port")]
    /\ UNCHANGED <<forward_mode, listener, quota>>

(* Where handle_client goes with the stream connect_socks5 returned, *)
(* main.rs:102,122 *)
AfterSocks(kind) == IF kind = "connect" THEN "write200" ELSE "write_prelude"

(* ReadBndPort with the result of the last read_exact ignored, a reply cut *)
(* off inside its port counting as read: C13 must tell it from the source. *)
ReadBndPortLenient(h) ==
    LET c == conn[h] IN
    /\ c.pc = "s5_port"
    /\ CanReadExact(c, 2)
    /\ conn' = [conn EXCEPT ![h] =
                   [c EXCEPT !.pc = AfterSocks(c.kind),
                             !.s2p = Drop(@, 2 - Len(c.part)),
                             !.hsRead = @ + Min(2 - Len(c.part), Len(c.s2p)),
                             !.part = <<>>, !.replyOk = TRUE]]
    /\ UNCHANGED <<forward_mode, listener, quota>>

(* The bound port and Ok(socks), main.rs:289-292 *)
ReadBndPort(h) ==
    LET c == conn[h] IN
    /\ c.pc = "s5_port"
    /\ CanReadExact(c, 2)
    /\ conn' = [conn EXCEPT ![h] =
                   IF ShortRead(c, 2) THEN ReadExact(c, 2, "s5_port")
                   ELSE [ReadExact(c, 2, AfterSocks(c.kind)) EXCEPT !.replyOk = TRUE]]
    /\ UNCHANGED <<forward_mode, listener, quota>>

(* proxy_data is entered: both transfers of copy_bidirectional run, *)
(* main.rs:310-311 *)
StartPump(c) == [c EXCEPT !.pc = "pump", !.dirUp = "run", !.dirDown = "run"]

(* Write200 that also sends upstream what the first read held after the *)
(* request line: C19 must tell it from the source. *)
Write200ForwardsRest(h) ==
    LET c == conn[h] IN
    /\ c.pc = "write200"
    /\ \/ conn' = [conn EXCEPT ![h] =
                      StartPump([c EXCEPT !.p2c = @ \o RESP_200,
                                          !.p2s = @ \o Drop(c.buffer,
                                                            first_line_len(c.buffer))])]
       \/ conn' = [conn EXCEPT ![h] = Return(c, "err")]
    /\ UNCHANGED <<forward_mode, listener, quota>>

(* client.write_all(200), then proxy_data, main.rs:102-109; or the write *)
(* fails and `?` returns the error. *)
Write200(h) ==
    LET c == conn[h] IN
    /\ c.pc = "write200"
    /\ \/ conn' = [conn EXCEPT ![h] = StartPump([c EXCEPT !.p2c = @ \o RESP_200])]
       \/ conn' = [conn EXCEPT ![h] = Return(c, "err")]
    /\ UNCHANGED <<forward_mode, listener, quota>>

(* The buffer with its request line rewritten, main.rs:121-124 *)
ModifiedRequest(buffer, r) == RewriteRequest(buffer, r.method, r.uri)

(* One write of write_all: the upstream takes the next k bytes of rest, *)
(* and proxy_data is entered once nothing is left, main.rs:127-128. *)
WritePart(c, rest, k) ==
    IF k = Len(rest)
    THEN StartPump([c EXCEPT !.p2s = @ \o rest, !.preludeSent = @ + k])
    ELSE [c EXCEPT !.p2s = @ \o Take(rest, k), !.preludeSent = @ + k]

(* socks.write_all(&modified_request), main.rs:127: a loop of writes, each *)
(* taking part or all of what is left, the task waiting in between; or a *)
(* write fails and `?` returns the error, part of the request being written. *)
WriteAll(h, c, rest) ==
    \/ \E k \in 1..Len(rest) : conn' = [conn EXCEPT ![h] = WritePart(c, rest, k)]
    \/ conn' = [conn EXCEPT ![h] = Return(c, "err")]

WritePrelude(h) ==
    /\ conn[h].pc = "write_prelude"
    /\ WriteAll(h, conn[h],
                Drop(ModifiedRequest(conn[h].buffer, parse_http_request(conn[h].buffer)),
                     conn[h].preludeSent))
    /\ UNCHANGED <<forward_mode, listener, quota>>

(* client.write_all(400) and Ok(()), main.rs:111-114,130-132,136; or the *)
(* write fails and `?` returns the error. *)
Write400(h) ==
    LET c == conn[h] IN
    /\ c.pc = "write400"
    /\ \/ conn' = [conn EXCEPT ![h] = Return([c EXCEPT !.p2c = @ \o RESP_400], "ok")]
       \/ conn' = [conn EXCEPT ![h] = Return(c, "err")]
    /\ UNCHANGED <<forward_mode, listener, quota>>

(* ForwardConnect greeting the SOCKS5 server itself before the relay: C7 *)
(* must tell it from the source. *)
ForwardConnectGreets(h) ==
    LET c == conn[h] IN
    /\ c.pc = "fwd_connect"
    /\ \/ conn' = [conn EXCEPT ![h] = Return([c EXCEPT !.connects = @ + 1], "err")]
       \/ \E server \in ForwardBehaviours :
             conn' = [conn EXCEPT ![h] =
                         StartPump([c EXCEPT !.kind = "forward", !.upOpen = TRUE,
                                             !.connects = @ + 1,
                                             !.p2s = @ \o Socks5Greeting,
                                             !.s2p = Take(server.bytes, server.cut),
                                             !.sLater = Drop(server.bytes, server.cut),
                                             !.sSent = server.bytes,
                                             !.sFin = server.fin])]
    /\ UNCHANGED <<forward_mode, listener, quota>>

(* handle_forward_client: TcpStream::connect, then proxy_data, *)
(* main.rs:297-306; the endpoint reached is one of `servers`. *)
ForwardConnectTo(h, servers) ==
    LET c == conn[h] IN
    /\ c.pc = "fwd_connect"
    /\ \/ conn' = [conn EXCEPT ![h] = Return([c EXCEPT !.connects = @ + 1], "err")]
       \/ \E server \in servers :
             conn' = [conn EXCEPT ![h] =
                         StartPump([c EXCEPT !.kind = "forward", !.upOpen = TRUE,
                                             !.connects = @ + 1,
                                             !.s2p = Take(server.bytes, server.cut),
                                             !.sLater = Drop(server.bytes, server.cut),
                                             !.sSent = server.bytes,
                                             !.sFin = server.fin])]
    /\ UNCHANGED <<forward_mode, listener, quota>>

ForwardConnect(h) == ForwardConnectTo(h, ForwardBehaviours)

(* The network delivers what the SOCKS5 server has sent: the socket the *)
(* handler reads (read_exact, main.rs:230-290, and the pump, main.rs:311) *)
(* holds it from then on. *)
ServerDelivers(h) ==
    LET c == conn[h] IN
    /\ c.upOpen /\ c.sLater # <<>>
    /\ conn' = [conn EXCEPT ![h] = [c EXCEPT !.s2p = @ \o c.sLater, !.sLater = <<>>]]
    /\ UNCHANGED <<forward_mode, listener, quota>>

----------------------------------------------------------------------------
(* The byte pump: tokio::io::copy_bidirectional(&mut client, &mut socks), *)
(* main.rs:311 *)

(* Each transfer is a tokio CopyBuffer: it reads from its source into a *)
(* buffer of CopyBufSize bytes and writes the buffer out to its *)
(* destination.  A write may take only part of the buffer, and the task *)
(* then waits holding bytes read and not yet written, while the other *)
(* transfer goes on.  buf is the part of the buffer not yet written *)
(* (buf[pos..cap]) and cap the end of what was read into it; a read is *)
(* tried while cap < CopyBufSize, and both go back to 0 once all is *)
(* written. *)

(* poll_fill_buf: k bytes are read from the client into the buffer. *)
FillBufUp(c, k) ==
    [c EXCEPT !.bufUp = @ \o Take(c.c2p, k), !.capUp = @ + k, !.c2p = Drop(@, k)]

(* poll_fill_buf: k bytes are read from the upstream into the buffer. *)
FillBufDown(c, k) ==
    [c EXCEPT !.bufDown = @ \o Take(c.s2p, k), !.capDown = @ + k, !.s2p = Drop(@, k)]

(* WriteBufUp writing each chunk twice: C6 must tell it from the source. *)
WriteBufUpTwice(c, k) ==
    [c EXCEPT !.p2s = @ \o Take(c.bufUp, k) \o Take(c.bufUp, k),
              !.pumpUp = @ \o Take(c.bufUp, k) \o Take(c.bufUp, k),
              !.bufUp = Drop(@, k),
              !.capUp = IF k = Len(c.bufUp) THEN 0 ELSE @]

(* poll_write_buf: the upstream takes the first k bytes of the buffer. *)
WriteBufUp(c, k) ==
    [c EXCEPT !.p2s = @ \o Take(c.bufUp, k), !.pumpUp = @ \o Take(c.bufUp, k),
              !.bufUp = Drop(@, k),
              !.capUp = IF k = Len(c.bufUp) THEN 0 ELSE @]

(* poll_write_buf: the client takes the first k bytes of the buffer. *)
WriteBufDown(c, k) ==
    [c EXCEPT !.p2c = @ \o Take(c.bufDown, k), !.pumpDown = @ \o Take(c.bufDown, k),
              !.bufDown = Drop(@, k),
              !.capDown = IF k = Len(c.bufDown) THEN 0 ELSE @]

(* The client -> upstream transfer has read the end of the stream and *)
(* written all it read: the upstream write half is shut down. *)
FinishUp(c) ==
    IF c.bufUp = <<>> THEN [c EXCEPT !.dirUp = "done", !.upShut = TRUE]
    ELSE [c EXCEPT !.dirUp = "eof"]

(* The upstream -> client transfer has read the end of the stream and *)
(* written all it read: the client write half is shut down. *)
FinishDown(c) ==
    IF c.bufDown = <<>> THEN [c EXCEPT !.dirDown = "done", !.clientShut = TRUE]
    ELSE [c EXCEPT !.dirDown = "eof"]

PumpUpRead(h) ==
    LET c == conn[h] IN
    /\ c.pc = "pump" /\ c.dirUp = "run" /\ c.c2p # <<>> /\ c.capUp < CopyBufSize
    /\ \E k \in 1..Min(Len(c.c2p), CopyBufSize - c.capUp) :
          conn' = [conn EXCEPT ![h] = FillBufUp(c, k)]
    /\ UNCHANGED <<forward_mode, listener, quota>>

(* A write of part or all of the buffer; once the end of the client's *)
(* stream was read, the write of the last byte is followed by the shutdown. *)
PumpUpWrite(h) ==
    LET c == conn[h] IN
    /\ c.pc = "pump" /\ c.dirUp \in {"run", "eof"} /\ c.bufUp # <<>>
    /\ \E k \in 1..Len(c.bufUp) :
          conn' = [conn EXCEPT ![h] =
                      IF c.dirUp = "eof" THEN FinishUp(WriteBufUp(c, k))
                      ELSE WriteBufUp(c, k)]
    /\ UNCHANGED <<forward_mode, listener, quota>>

(* The read returns 0, the client's end of stream. *)
PumpUpEof(h) ==
    LET c == conn[h] IN
    /\ c.pc = "pump" /\ c.dirUp = "run" /\ c.c2p = <<>> /\ c.cFin
    /\ c.capUp < CopyBufSize
    /\ conn' = [conn EXCEPT ![h] = FinishUp(c)]
    /\ UNCHANGED <<forward_mode, listener, quota>>

PumpDownRead(h) ==
    LET c == conn[h] IN
    /\ c.pc = "pump" /\ c.dirDown = "run" /\ c.s2p # <<>> /\ c.capDown < CopyBufSize
    /\ \E k \in 1..Min(Len(c.s2p), CopyBufSize - c.capDown) :
          conn' = [conn EXCEPT ![h] = FillBufDown(c, k)]
    /\ UNCHANGED <<forward_mode, listener, quota>>

PumpDownWrite(h) ==
    LET c == conn[h] IN
    /\ c.pc = "pump" /\ c.dirDown \in {"run", "eof"} /\ c.bufDown # <<>>
    /\ \E k \in 1..Len(c.bufDown) :
          conn' = [conn EXCEPT ![h] =
                      IF c.dirDown = "eof" THEN FinishDown(WriteBufDown(c, k))
                      ELSE WriteBufDown(c, k)]
    /\ UNCHANGED <<forward_mode, listener, quota>>

(* The read returns 0, the upstream's end of stream. *)
PumpDownEof(h) ==
    LET c == conn[h] IN
    /\ c.pc = "pump" /\ c.dirDown = "run" /\ UpstreamEof(c)
    /\ c.capDown < CopyBufSize
    /\ conn' = [conn EXCEPT ![h] = FinishDown(c)]
    /\ UNCHANGED <<forward_mode, listener, quota>>

(* A transport error in either transfer: Err(e), main.rs:319-322; the *)
(* bytes read and not yet written are dropped with the buffers. *)
PumpError(h) ==
    LET c == conn[h] IN
    /\ c.pc = "pump" /\ (c.dirUp # "done" \/ c.dirDown # "done")
    /\ conn' = [conn EXCEPT ![h] = Return(c, "err")]
    /\ UNCHANGED <<forward_mode, listener, quota>>

(* PumpReturn as soon as either transfer is done, as a select over the two *)
(* would: C18 must tell it from the source. *)
PumpReturnEarly(h) ==
    LET c == conn[h] IN
    /\ c.pc = "pump" /\ (c.dirUp = "done" \/ c.dirDown = "done")
    /\ conn' = [conn EXCEPT ![h] = Return(c, "ok")]
    /\ UNCHANGED <<forward_mode, listener, quota>>

(* Both transfers are done: Ok((from_client, from_socks)), main.rs:312-318 *)
PumpReturn(h) ==
    LET c == conn[h] IN
    /\ c.pc = "pump" /\ c.dirUp = "done" /\ c.dirDown = "done"
    /\ conn' = [conn EXCEPT ![h] = Return(c, "ok")]
    /\ UNCHANGED <<forward_mode, listener, quota>>

----------------------------------------------------------------------------

Next ==
    \/ AcceptError
    \/ \E h \in Conns :
          \/ Accept(h)
          \/ ReadRequest(h)
          \/ TcpConnect(h)
          \/ SendGreeting(h)
          \/ ReadGreetingReply(h)
          \/ SendRequest(h)
          \/ ReadReplyHeader(h)
          \/ ReadDomainLen(h)
          \/ ReadBndAddr(h)
          \/ ReadBndPort(h)
          \/ Write200(h)
          \/ WritePrelude(h)
          \/ Write400(h)
          \/ ForwardConnect(h)
          \/ ServerDelivers(h)
          \/ PumpUpRead(h)
          \/ PumpUpWrite(h)
          \/ PumpUpEof(h)
          \/ PumpDownRead(h)
          \/ PumpDownWrite(h)
          \/ PumpDownEof(h)
          \/ PumpError(h)
          \/ PumpReturn(h)

Spec == Init /\ [][Next]_vars

----------------------------------------------------------------------------
(* The same program with fewer peers and a fair byte pump: the runtime *)
(* polls a task whenever one of its streams is ready, and *)
(* copy_bidirectional polls both of its transfers each time it is polled, *)
(* so a transfer that can read, write, or see the end of its stream does. *)
(* What a peer has sent before it closes arrives, as its end of stream *)
(* does, and a peer takes the bytes written to it.  Errors of the transport and of accept are the environment's and *)
(* need not come. *)

SmallReads == {InConnectDomain, InConnectLongHost, InGetAbsolute, InGetTwoTokens}

SmallSends(forward) ==
    IF forward
    THEN ClientSends(forward)
    ELSE {[first |-> f, later |-> ClientPayload(MaxData), err |-> FALSE, fin |-> TRUE] :
             f \in SmallReads}
         \cup {[first |-> <<>>, later |-> <<>>, err |-> e, fin |-> TRUE] : e \in BOOLEAN}
         \cup {[first |-> f, later |-> ClientPayload(MaxData), err |-> FALSE,
                fin |-> FALSE] : f \in {<<>>, InConnectDomain}}

SmallServers ==
    {[bytes |-> r \o ServerPayload(MaxData), fin |-> TRUE, cut |-> Len(r) + MaxData] :
        r \in {ReplyOkIpv4, ReplyOkDomain}}
        \cup {[bytes |-> <<5, 0, 5, 1, 0, 1, 0, 0, 0, 0, 0, 0>>, fin |-> TRUE, cut |-> 12]}
        \cup {[bytes |-> s, fin |-> FALSE, cut |-> Len(s)] : s \in OpenScripts}

HandlerStep(h) ==
    \/ ReadRequest(h)
    \/ TcpConnectTo(h, SmallServers)
    \/ SendGreeting(h)
    \/ ReadGreetingReply(h)
    \/ SendRequest(h)
    \/ ReadReplyHeader(h)
    \/ ReadDomainLen(h)
    \/ ReadBndAddr(h)
    \/ ReadBndPort(h)
    \/ Write200(h)
    \/ WritePrelude(h)
    \/ Write400(h)
    \/ ForwardConnectTo(h, ForwardBehaviours)

NextSmall ==
    \/ AcceptError
    \/ \E h \in Conns :
          \/ AcceptFrom(h, SmallSends(forward_mode))
          \/ HandlerStep(h)
          \/ ServerDelivers(h)
          \/ PumpUpRead(h)
          \/ PumpUpWrite(h)
          \/ PumpUpEof(h)
          \/ PumpDownRead(h)
          \/ PumpDownWrite(h)
          \/ PumpDownEof(h)
          \/ PumpError(h)
          \/ PumpReturn(h)

Fairness ==
    \A h \in Conns :
        /\ WF_vars(ServerDelivers(h))
        /\ WF_vars(PumpUpRead(h))
        /\ WF_vars(PumpUpWrite(h))
        /\ WF_vars(PumpUpEof(h))
        /\ WF_vars(PumpDownRead(h))
        /\ WF_vars(PumpDownWrite(h))
        /\ WF_vars(PumpDownEof(h))
        /\ WF_vars(PumpReturn(h))

SpecSmall == Init /\ [][NextSmall]_vars /\ Fairness

----------------------------------------------------------------------------
(* The same program with every connection slot in use at once: the clients *)
(* open MaxConns connections, whose handler tasks interleave freely. *)

ConcSends(forward) ==
    IF forward
    THEN {[first |-> <<>>, later |-> ClientPayload(1), err |-> FALSE, fin |-> TRUE]}
    ELSE {[first |-> f, later |-> ClientPayload(1), err |-> FALSE, fin |-> TRUE] :
             f \in {InConnectDomain, InGetTwoTokens}}
         \cup {[first |-> <<>>, later |-> <<>>, err |-> e, fin |-> TRUE] : e \in BOOLEAN}

ConcServers ==
    {[bytes |-> ReplyOkIpv4 \o ServerPayload(1), fin |-> TRUE, cut |-> 13],
     [bytes |-> <<5, 0, 5, 1, 0, 1, 0, 0, 0, 0, 0, 0>>, fin |-> TRUE, cut |-> 12]}

ConcEndpoints == {[bytes |-> ServerPayload(1), fin |-> TRUE, cut |-> 1]}

InitConc ==
    /\ forward_mode \in BOOLEAN
    /\ listener = "accepting"
    /\ quota = MaxConns
    /\ conn = [h \in Conns |-> IdleConn]

NextConc ==
    \/ AcceptError
    \/ \E h \in Conns :
          \/ AcceptFrom(h, ConcSends(forward_mode))
          \/ ReadRequest(h)
          \/ TcpConnectTo(h, ConcServers)
          \/ SendGreeting(h)
          \/ ReadGreetingReply(h)
          \/ SendRequest(h)
          \/ ReadReplyHeader(h)
          \/ ReadBndAddr(h)
          \/ ReadBndPort(h)
          \/ Write200(h)
          \/ Write400(h)
          \/ ForwardConnectTo(h, ConcEndpoints)
          \/ PumpUpRead(h)
          \/ PumpUpWrite(h)
          \/ PumpUpEof(h)
          \/ PumpDownRead(h)
          \/ PumpDownWrite(h)
          \/ PumpDownEof(h)
          \/ PumpError(h)
          \/ PumpReturn(h)

SpecConc == InitConc /\ [][NextConc]_vars

----------------------------------------------------------------------------
(* C11.  A step in which one connection's handler fails (its first read *)
(* fails or returns no byte, the upstream connect or the SOCKS5 exchange *)
(* fails, the pump meets a transport error) leaves the listener accepting *)
(* as before and changes nothing of any other connection: not its handler's *)
(* position, its streams, its buffers or its result.  A request that does *)
(* not parse ends its handler with the 400 and the same frame.  This holds *)
(* with every connection slot in use and the handlers interleaved freely. *)
HandlerEnds(h) == conn[h].pc \notin {"idle", "done"} /\ conn'[h].pc = "done"

C11_HandlerFailureIsLocal ==
    [][\A h \in Conns :
          HandlerEnds(h)
          => /\ listener' = listener /\ quota' = quota
             /\ \A g \in Conns \ {h} : conn'[g] = conn[g]]_vars

C11_Witness ==
    \E h, g \in Conns :
        /\ listener = "accepting"
        /\ conn[h].pc = "done" /\ conn[h].result = "err" /\ conn[h].connects = 1
        /\ conn[g].pc = "pump" /\ conn[g].pumpDown # <<>>

----------------------------------------------------------------------------
(* What the specification says of a request and of a SOCKS5 reply, stated *)
(* on the bytes themselves *)

(* The inbound request line: the bytes before the first CRLF. *)
InboundRequestLine(buf) ==
    IF FindFrom(buf, STR_CRLF, 1) = 0 THEN buf
    ELSE SubSeq(buf, 1, FindFrom(buf, STR_CRLF, 1) - 1)

(* The bytes after the request line and its CRLF. *)
AfterRequestLine(buf) ==
    IF FindFrom(buf, STR_CRLF, 1) = 0 THEN <<>>
    ELSE Drop(buf, FindFrom(buf, STR_CRLF, 1) + 1)

(* The whitespace-separated tokens of the inbound request line, as bytes. *)
InboundTokens(buf) == SplitWhitespace(InboundRequestLine(buf))

(* "<METHOD> <URI> HTTP/1.1" CRLF in place of the inbound request line. *)
ExpectedUpstreamRequest(buf) ==
    InboundTokens(buf)[1] \o <<32>> \o InboundTokens(buf)[2] \o STR_HTTP11_CRLF
        \o AfterRequestLine(buf)

(* What a handler wrote upstream after its SOCKS5 greeting and request. *)
UpstreamAfterNegotiation(c) ==
    Drop(c.p2s, Len(Socks5Greeting) + Len(c.reqs[1]))

(* A server's bytes hold a whole successful reply: two bytes of method *)
(* selection, VER REP RSV ATYP with REP = 0, the bound address, the port. *)
ReplyAddrLen(s) ==
    IF s[6] = 1 THEN 4
    ELSE IF s[6] = 4 THEN 16
    ELSE IF s[6] = 3 /\ Len(s) >= 7 THEN 1 + s[7]
    ELSE 70000

ReplyLen(s) == 2 + 4 + ReplyAddrLen(s) + 2

ReplySucceeds(s) == Len(s) >= 6 /\ s[4] = 0 /\ Len(s) >= ReplyLen(s)

(* The handler has run proxy_data. *)
HandedToPump(c) == c.dirUp # "idle"

(* The handler task is over. *)
Finished(c) == c.pc \in {"done", "cancelled"}

----------------------------------------------------------------------------
(* C1 (as stated).  HTTP mode, regular request accepted by the parser: the *)
(* bytes written upstream after the SOCKS5 negotiation are the line *)
(* "<METHOD> <URI> HTTP/1.1" CRLF, METHOD and URI being the first two tokens *)
(* of the inbound request line byte for byte, put in place of the inbound *)
(* request line and followed by the rest of the first read. *)
C1_RewriteReplacesRequestLine ==
    \A h \in Conns :
        (conn[h].kind = "http" /\ HandedToPump(conn[h]))
        => IsPrefix(ExpectedUpstreamRequest(conn[h].buffer),
                    UpstreamAfterNegotiation(conn[h]))

----------------------------------------------------------------------------
(* C2 (as stated).  HTTP mode, regular request: the SOCKS5 target is the *)
(* Host header value (all that follows the header's first ':', trimmed) *)
(* split at its last ':' into host and port, the port being the parsed u16 *)
(* (80 only when it does not parse), or the whole value and port 80 when the *)
(* value holds no ':'.  "Host: foo:8081" gives (foo, 8081). *)
HostValueAfterFirstColon(line) == Trim(Drop(line, FindFrom(line, <<58>>, 1)))

ExpectedHostTarget(buf) ==
    HostPort(HostValueAfterFirstColon(
                 FindHostLine(SplitOn(Utf8Lossy(buf), STR_CRLF))[1]))

C2_TargetFromHostHeader ==
    \A h \in Conns :
        (conn[h].kind = "http" /\ conn[h].connects > 0)
        => /\ conn[h].host = ExpectedHostTarget(conn[h].buffer).host
           /\ conn[h].port = ExpectedHostTarget(conn[h].buffer).port

----------------------------------------------------------------------------
(* C3.  HTTP mode, CONNECT: the client is written the 200 response only *)
(* once the SOCKS5 CONNECT for the parsed (host, port) has succeeded on the *)
(* one upstream connection (REP = 0 and the whole reply read), and before *)
(* the byte pump copies anything; a handler whose upstream connect or SOCKS5 *)
(* exchange failed has written nothing to the client. *)
C3_200OnlyAfterSocksSuccess ==
    \A h \in Conns :
        LET c == conn[h] IN
        (~forward_mode /\ c.kind = "connect")
        => /\ (c.p2c # <<>> /\ c.pc # "done" => IsPrefix(RESP_200, c.p2c))
           /\ IsPrefix(RESP_200, c.p2c)
              => /\ c.replyOk /\ c.connects = 1
                 /\ ReplySucceeds(c.sSent) /\ c.hsRead = ReplyLen(c.sSent)
                 /\ c.reqs = <<Socks5Request(c.host, c.port)>>
                 /\ c.p2c = RESP_200 \o c.pumpDown
           /\ HandedToPump(c) => IsPrefix(RESP_200, c.p2c)
           /\ (c.connects > 0 /\ ~c.replyOk) => c.p2c = <<>>

C3_Witness ==
    \E h \in Conns :
        /\ conn[h].kind = "connect" /\ conn[h].pc = "pump"
        /\ conn[h].p2c = RESP_200 /\ conn[h].sSent[4] = SOCKS5_SUCCESS

----------------------------------------------------------------------------
(* The request line of a first read, in tokens, and a CONNECT authority *)
(* split at its last ':' into a host and a port. *)
RequestLineTokens(buf) == SplitWhitespace(SplitOn(Utf8Lossy(buf), STR_CRLF)[1])

AuthorityHost(token) == SubSeq(token, 1, RFindChar(token, 58, Len(token)) - 1)

AuthorityPort(token) == Drop(token, RFindChar(token, 58, Len(token)))

AuthorityAccepted(token) ==
    /\ RFindChar(token, 58, Len(token)) > 1
    /\ ParseU16(AuthorityPort(token)).ok

(* No header line, that is no line after the request line, starts with *)
(* "host:" in any letter case. *)
NoHostHeader(buf) == FindHostLine(Tail(SplitOn(Utf8Lossy(buf), STR_CRLF))) = <<>>

Unparseable(buf) ==
    \/ Len(RequestLineTokens(buf)) # 3
    \/ /\ RequestLineTokens(buf)[1] = STR_CONNECT
       /\ ~AuthorityAccepted(RequestLineTokens(buf)[2])
    \/ /\ RequestLineTokens(buf)[1] # STR_CONNECT
       /\ NoHostHeader(buf)

(* C4 (as stated).  HTTP mode: when the first read is unparseable (its *)
(* request line does not hold exactly three tokens, or it is a CONNECT *)
(* whose authority is not a non-empty host, ':' and a u16 port, or it is *)
(* not a CONNECT and has no Host header), the handler's one write is the *)
(* 400 response to the client: it opens no upstream connection, never runs *)
(* the byte pump, and ends with the client connection closed, having *)
(* written exactly the 400 and returned Ok, or nothing at all when the *)
(* transport failed that write. *)
C4_Unparseable400 ==
    \A h \in Conns :
        LET c == conn[h] IN
        (~forward_mode /\ c.buffer # <<>> /\ Unparseable(c.buffer))
        => /\ c.connects = 0 /\ c.p2s = <<>> /\ ~c.upOpen
           /\ ~HandedToPump(c)
           /\ c.p2c \in {<<>>, RESP_400}
           /\ c.pc \in {"write400", "done", "cancelled"}
           /\ c.pc = "done"
              => /\ ~c.clientOpen
                 /\ c.p2c = (IF c.result = "ok" THEN RESP_400 ELSE <<>>)

----------------------------------------------------------------------------
(* C5.  Either mode, every path: a handler opens at most one upstream TCP *)
(* connection, and once it is over (the pump returned, or it unwound) both *)
(* the client stream and the upstream stream are closed. *)
C5_OneUpstreamAndClosed ==
    \A h \in Conns :
        LET c == conn[h] IN
        /\ c.connects <= 1
        /\ c.upOpen => c.connects = 1
        /\ Finished(c) => (~c.clientOpen /\ ~c.upOpen)

C5_Witness ==
    \E h \in Conns :
        /\ conn[h].pc = "done" /\ conn[h].result = "ok"
        /\ conn[h].connects = 1 /\ HandedToPump(conn[h])
        /\ ~conn[h].clientOpen /\ ~conn[h].upOpen

----------------------------------------------------------------------------
(* C6.  After a successful CONNECT handshake the bytes the pump has *)
(* written upstream are a prefix of the bytes the client sent after its *)
(* first read, and nothing else follows the SOCKS5 request upstream; the *)
(* bytes written to the client after the 200 are a prefix of the bytes the *)
(* upstream sent after its SOCKS5 reply.  The bytes a transfer has read and *)
(* not yet written are the ones that come next, and none is left when the *)
(* pump returns Ok. *)
C6_TunnelIsTransparent ==
    \A h \in Conns :
        LET c == conn[h] IN
        (c.kind = "connect" /\ HandedToPump(c))
        => /\ IsPrefix(c.pumpUp \o c.bufUp, Drop(c.cSent, Len(c.buffer)))
           /\ c.p2s = Socks5Greeting \o c.reqs[1] \o c.pumpUp
           /\ IsPrefix(c.pumpDown \o c.bufDown, Drop(c.sSent, ReplyLen(c.sSent)))
           /\ c.p2c = RESP_200 \o c.pumpDown
           /\ (c.pc = "done" /\ c.result = "ok")
              => (c.bufUp = <<>> /\ c.bufDown = <<>>)

C6_Witness ==
    \E h \in Conns :
        /\ conn[h].kind = "connect"
        /\ conn[h].pumpUp = <<120, 121>> /\ conn[h].pumpDown = <<121, 120>>

----------------------------------------------------------------------------
(* C7.  Forward mode: the handler reads no request, sends no SOCKS5 *)
(* greeting or request and writes no byte of its own: what it wrote *)
(* upstream is a prefix of what the client sent, what it wrote to the *)
(* client is a prefix of what the SOCKS5 endpoint sent. *)
C7_ForwardIsRawRelay ==
    \A h \in Conns :
        LET c == conn[h] IN
        forward_mode
        => /\ c.buffer = <<>> /\ c.reqs = <<>> /\ c.hsRead = 0
           /\ c.p2s = c.pumpUp /\ IsPrefix(c.p2s, c.cSent)
           /\ c.p2c = c.pumpDown /\ IsPrefix(c.p2c, c.sSent)
           /\ c.pumpUp \o c.bufUp \o c.c2p = c.cSent

C7_Witness ==
    \E h \in Conns :
        /\ forward_mode
        /\ conn[h].p2s = <<120, 121>> /\ conn[h].p2c = <<121, 120>>

----------------------------------------------------------------------------
(* C8 (as stated).  Every well-formed "CONNECT H:P HTTP/1.x" (three tokens, *)
(* the authority split at its last ':' into a non-empty H and a u16 P) gets *)
(* exactly one SOCKS5 request: 05 01 00, then 01 and 4 octets for an IPv4 *)
(* literal, 04 and 16 octets for an IPv6 literal, else 03, the byte length *)
(* of H and H, then P in two big-endian bytes. *)

WellFormedConnect(buf) ==
    /\ StartsWith(buf, STR_CONNECT)
    /\ Len(RequestLineTokens(buf)) = 3
    /\ RequestLineTokens(buf)[1] = STR_CONNECT
    /\ RFindChar(RequestLineTokens(buf)[2], 58, Len(RequestLineTokens(buf)[2])) > 1
    /\ ParseU16(AuthorityPort(RequestLineTokens(buf)[2])).ok

ExpectedAddress(host) ==
    IF ParseIpAddr(host).kind = "v4" THEN <<1>> \o ParseIpAddr(host).octets
    ELSE IF ParseIpAddr(host).kind = "v6" THEN <<4>> \o ParseIpAddr(host).octets
    ELSE <<3, Len(Utf8Encode(host))>> \o Utf8Encode(host)

ExpectedSocksRequest(buf) ==
    <<5, 1, 0>> \o ExpectedAddress(AuthorityHost(RequestLineTokens(buf)[2]))
        \o ToBeBytes(ParseU16(AuthorityPort(RequestLineTokens(buf)[2])).val)

C8_ConnectRequestEncoding ==
    \A h \in Conns :
        LET c == conn[h] IN
        (~forward_mode /\ c.buffer # <<>> /\ WellFormedConnect(c.buffer))
        => /\ c.reqs \in {<<>>, <<ExpectedSocksRequest(c.buffer)>>}
           /\ (c.pc = "done" /\ c.result = "ok")
              => c.reqs = <<ExpectedSocksRequest(c.buffer)>>

----------------------------------------------------------------------------
(* C9 (as stated).  Whichever the mode, an upstream connection handed to *)
(* the byte pump has completed a successful SOCKS5 CONNECT reply. *)
C9_PumpOnlyAfterSocksReply ==
    \A h \in Conns :
        HandedToPump(conn[h])
        => (conn[h].replyOk /\ ReplySucceeds(conn[h].sSent))

(* C9 (amended).  In HTTP mode an upstream connection handed to the byte *)
(* pump has completed a successful SOCKS5 CONNECT reply on that connection; *)
(* in forward mode it is handed over right after the TCP connect, the *)
(* handler having negotiated nothing. *)
C9_PumpAfterReplyUnlessForward ==
    \A h \in Conns :
        LET c == conn[h] IN
        HandedToPump(c)
        => /\ c.connects = 1
           /\ IF forward_mode
              THEN ~c.replyOk /\ c.hsRead = 0 /\ c.reqs = <<>>
              ELSE /\ c.replyOk /\ ReplySucceeds(c.sSent)
                   /\ c.hsRead = ReplyLen(c.sSent) /\ Len(c.reqs) = 1

C9_Witness ==
    \E h \in Conns :
        /\ ~forward_mode /\ conn[h].pc = "pump" /\ conn[h].kind = "http"
        /\ conn[h].sSent = ReplyOkDomain \o <<121>>

----------------------------------------------------------------------------
(* C10 (as stated).  Every target the parser produces has port > 0, and no *)
(* SOCKS5 request names port 0. *)
HasTarget(c) == c.kind \in {"connect", "http"} /\ c.pc # "write400" /\ c.connects > 0

C10_PortPositive ==
    \A h \in Conns :
        /\ HasTarget(conn[h]) => conn[h].port > 0
        /\ \A i \in 1..Len(conn[h].reqs) :
              SubSeq(conn[h].reqs[i], Len(conn[h].reqs[i]) - 1, Len(conn[h].reqs[i]))
                  # <<0, 0>>

(* C10 (amended).  Every target the parser produces has a port in *)
(* 0..65535, and port > 0 unless the request is a CONNECT whose authority *)
(* names port zero: that target is produced, and its SOCKS5 request carries *)
(* the port bytes 00 00. *)
NamesPortZero(buf) ==
    /\ Len(RequestLineTokens(buf)) = 3
    /\ ParseU16(AuthorityPort(RequestLineTokens(buf)[2])).ok
    /\ ParseU16(AuthorityPort(RequestLineTokens(buf)[2])).val = 0

C10_PortPositiveUnlessConnectZero ==
    \A h \in Conns :
        LET c == conn[h] IN
        HasTarget(c)
        => /\ c.port \in 0..65535
           /\ c.port = 0 <=> (c.kind = "connect" /\ NamesPortZero(c.buffer))
           /\ \A i \in 1..Len(c.reqs) :
                 SubSeq(c.reqs[i], Len(c.reqs[i]) - 1, Len(c.reqs[i])) = ToBeBytes(c.port)

C10_Witness ==
    \E h \in Conns :
        /\ conn[h].buffer = InConnectPortZero /\ conn[h].port = 0
        /\ conn[h].reqs = <<<<5, 1, 0, 3, 1, 104, 0, 0>>>>

----------------------------------------------------------------------------
(* C12 (as stated).  Once the listener is bound, an error of accept leaves *)
(* the accept loop running: the listener is accepting in every reachable *)
(* state, and no handler task is dropped because the process ended. *)
C12_AcceptErrorKeepsListening ==
    /\ listener = "accepting"
    /\ \A h \in Conns : conn[h].pc # "cancelled"

----------------------------------------------------------------------------
(* C13.  HTTP mode: when the upstream connect fails, or the server's bytes *)
(* do not hold a whole reply with REP = 0 and an ATYP of 01, 03 or 04, the *)
(* byte pump is never run, no byte is written to the client, nothing goes *)
(* upstream beyond the SOCKS5 greeting and request, connect_socks5 does not *)
(* return a stream, and the handler ends with an error and both streams *)
(* closed. *)
C13_HandshakeFailureIsSilent ==
    \A h \in Conns :
        LET c == conn[h] IN
        (~forward_mode /\ c.connects > 0 /\ ~ReplySucceeds(c.sSent))
        => /\ ~HandedToPump(c) /\ ~c.replyOk
           /\ c.p2c = <<>>
           /\ IsPrefix(c.p2s, Socks5Greeting \o Socks5Request(c.host, c.port))
           /\ c.pc = "done" => (c.result = "err" /\ ~c.clientOpen /\ ~c.upOpen)

C13_Witness ==
    \E h \in Conns :
        /\ conn[h].sSent = <<5, 0, 5, 0, 0, 1, 0, 0, 0, 0, 0>>
        /\ conn[h].pc = "done" /\ conn[h].result = "err"
        /\ conn[h].hsRead = 11 /\ conn[h].p2c = <<>>

----------------------------------------------------------------------------
(* C14 (as stated).  When the two bytes that answer the greeting are not *)
(* 05 00, the handshake fails: no CONNECT request is sent and no stream is *)
(* returned. *)
C14_GreetingReplyChecked ==
    \A h \in Conns :
        LET c == conn[h] IN
        (~forward_mode /\ Len(c.sSent) >= 2
            /\ SubSeq(c.sSent, 1, 2) # <<SOCKS5_VERSION, SOCKS5_AUTH_NONE>>)
        => (c.reqs = <<>> /\ ~c.replyOk)

----------------------------------------------------------------------------
(* C15 (as stated).  Every SOCKS5 request sent with a domain name (ATYP 03) *)
(* has a length byte equal to the number of name bytes that follow it, and *)
(* no request is sent for a name longer than 255 bytes. *)
C15_LongNameRejected ==
    \A h \in Conns :
        \A i \in 1..Len(conn[h].reqs) :
            conn[h].reqs[i][4] = SOCKS5_ATYP_DOMAIN
            => /\ conn[h].reqs[i][5] = Len(conn[h].reqs[i]) - 7
               /\ Len(Utf8Encode(conn[h].host)) <= 255

----------------------------------------------------------------------------
(* C16 (as stated).  A CONNECT request line of three tokens: its authority *)
(* is split at its last ':' and accepted exactly when the host before it is *)
(* not empty and the port after it parses as a u16; an accepted authority *)
(* gives that host verbatim and that port, every other one gets the 400 and *)
(* no upstream connection. *)
C16_AuthoritySplitAtLastColon ==
    \A h \in Conns :
        LET c == conn[h] IN
        (c.kind = "connect" /\ Len(RequestLineTokens(c.buffer)) = 3)
        => IF AuthorityAccepted(RequestLineTokens(c.buffer)[2])
           THEN /\ c.pc # "write400" /\ c.p2c # RESP_400
                /\ c.host = AuthorityHost(RequestLineTokens(c.buffer)[2])
                /\ c.port = ParseU16(AuthorityPort(RequestLineTokens(c.buffer)[2])).val
           ELSE /\ c.connects = 0
                /\ c.pc \in {"write400", "done", "cancelled"}
                /\ (c.pc = "done" /\ c.result = "ok") => c.p2c = RESP_400

----------------------------------------------------------------------------
(* C17 (as stated).  HTTP mode, regular request: what the handler has *)
(* written upstream after the SOCKS5 negotiation is the rewritten request *)
(* line, then every byte of the first read after the inbound request *)
(* line's CRLF, then the bytes the pump copied, which are a prefix of what *)
(* the client sent after its first read; until the rewritten buffer is *)
(* written the pump has copied nothing. *)
C17_PreludeThenClientBytes ==
    \A h \in Conns :
        LET c == conn[h] IN
        c.kind = "http"
        => /\ HandedToPump(c)
              => /\ UpstreamAfterNegotiation(c)
                        = ExpectedUpstreamRequest(c.buffer) \o c.pumpUp
                 /\ IsPrefix(c.pumpUp, Drop(c.cSent, Len(c.buffer)))
           /\ ~HandedToPump(c) => (c.pumpUp = <<>> /\ c.pumpDown = <<>>)

----------------------------------------------------------------------------
(* The byte pump of a connection, C18 *)

(* While the pump runs it holds both streams, and a transfer is done *)
(* exactly when it has shut down the write side of its destination, which *)
(* it does with nothing left to write. *)
HalfCloseOnEof(c) ==
    c.pc = "pump"
    => /\ c.clientOpen /\ c.upOpen
       /\ c.dirUp = "done" <=> c.upShut
       /\ c.dirDown = "done" <=> c.clientShut
       /\ c.upShut => c.bufUp = <<>>
       /\ c.clientShut => c.bufDown = <<>>

BothTransfersDone(c) == c.dirUp = "done" /\ c.dirDown = "done"

(* C18 (as stated).  When one direction reaches end of stream the write *)
(* side of its destination is half-closed, and the pump returns only after *)
(* both directions have ended. *)
C18_PumpReturnsAfterBothEnd ==
    \A h \in Conns :
        /\ HalfCloseOnEof(conn[h])
        /\ (HandedToPump(conn[h]) /\ conn[h].pc = "done")
           => BothTransfersDone(conn[h])

(* C18 (amended).  When one direction reaches end of stream the write side *)
(* of its destination is half-closed while the pump goes on; the pump *)
(* returns Ok only after both directions have reached end of stream, and a *)
(* transport error in either direction makes it return that error at once, *)
(* whatever the other direction was doing and whatever it had read and not *)
(* yet written; if both peers close and take the bytes written to them, the *)
(* pump eventually returns, unless the process ends first. *)
C18_PumpEndsBothOrErrs ==
    /\ [](\A h \in Conns :
             /\ HalfCloseOnEof(conn[h])
             /\ (HandedToPump(conn[h]) /\ conn[h].pc = "done")
                => \/ conn[h].result = "ok" /\ BothTransfersDone(conn[h])
                                             /\ conn[h].cFin /\ conn[h].sFin
                                             /\ conn[h].bufUp = <<>>
                                             /\ conn[h].bufDown = <<>>
                   \/ conn[h].result = "err")
    /\ \A h \in Conns :
          (conn[h].pc = "pump" /\ conn[h].cFin /\ conn[h].sFin) ~> Finished(conn[h])

C18_Witness ==
    \E h \in Conns :
        /\ conn[h].pc = "pump"
        /\ conn[h].dirDown = "done" /\ conn[h].clientShut
        /\ conn[h].dirUp = "run" /\ conn[h].pumpUp # <<>> /\ conn[h].c2p # <<>>

----------------------------------------------------------------------------
(* C19.  HTTP mode, CONNECT: what the handler has written upstream is, *)
(* before the pump runs, a prefix of the SOCKS5 greeting followed by the *)
(* SOCKS5 request, and from then on the greeting, the request and the bytes *)
(* the pump copied, which are a prefix of what the client sent after the *)
(* first read: no byte of the first read itself goes upstream, whatever *)
(* followed the request line in it. *)
C19_ConnectBufferDiscarded ==
    \A h \in Conns :
        LET c == conn[h] IN
        c.kind = "connect"
        => IF HandedToPump(c)
           THEN /\ c.p2s = Socks5Greeting \o Socks5Request(c.host, c.port) \o c.pumpUp
                /\ IsPrefix(c.pumpUp, Drop(c.cSent, Len(c.buffer)))
           ELSE /\ c.pumpUp = <<>>
                /\ IsPrefix(c.p2s, Socks5Greeting \o Socks5Request(c.host, c.port))
                /\ c.p2s = <<>> \/ IsPrefix(Socks5Greeting, c.p2s)

C19_Witness ==
    \E h \in Conns :
        /\ conn[h].buffer = InConnectWithBody
        /\ conn[h].pc = "done" /\ conn[h].result = "ok"
        /\ conn[h].pumpUp = ClientPayload(MaxData)
        /\ conn[h].p2s = <<5, 1, 0, 5, 1, 0, 3, 1, 104, 1, 187>> \o ClientPayload(MaxData)

----------------------------------------------------------------------------
(* C20.  HTTP mode: when connect_socks5 has returned a stream it has *)
(* consumed from it exactly the reply, 2 + 4 + the bound address (4, 16 or *)
(* 1 + n bytes) + 2 bytes, and the bytes the server sent after its reply *)
(* are, in order, those the pump has delivered to the client (after the 200 *)
(* of a CONNECT) followed by those still unread. *)
C20_ReplyConsumedExactly ==
    \A h \in Conns :
        LET c == conn[h] IN
        (~forward_mode /\ c.replyOk)
        => /\ c.hsRead = ReplyLen(c.sSent)
           /\ c.hsRead = 2 + 4 + (IF c.sSent[6] = SOCKS5_ATYP_IPV4 THEN 4
                                   ELSE IF c.sSent[6] = SOCKS5_ATYP_IPV6 THEN 16
                                   ELSE 1 + c.sSent[7]) + 2
           /\ c.pumpDown \o c.bufDown \o c.s2p \o c.sLater = Drop(c.sSent, c.hsRead)
           /\ c.p2c = (IF c.kind = "connect" /\ HandedToPump(c) THEN RESP_200 ELSE <<>>)
                          \o c.pumpDown

C20_Witness ==
    \E h \in Conns :
        /\ conn[h].sSent = ReplyOkDomain \o ServerPayload(MaxData)
        /\ conn[h].kind = "connect" /\ conn[h].hsRead = 11
        /\ conn[h].p2c = RESP_200 \o ServerPayload(MaxData)

====
